---- MODULE Spec2Model ----
(***************************************************************************)
(* Model of app_vistoriador.py: the production panel per inspector.        *)
(*                                                                         *)
(* The script is a chain of table transformations.  Each part is modelled  *)
(* as one step over the tables it reads and writes:                        *)
(*   SpecSheet   read_one_sheet: normalisation, classification of repeat   *)
(*               inspections (IS_REV), removal of invalid units            *)
(*   SpecResumo  the "Resumo por Vistoriador" table (grp) built from the   *)
(*               filtered view and the quota table of the reference month  *)
(*   SpecCalc    the derived columns of one Resumo row                     *)
(*   SpecStreak  _consecutive_without_meta over one inspector's history    *)
(*   SpecHist    the monthly history (hist) and the underperformers table  *)
(*               (hist_table) built from the consolidated data             *)
(*                                                                         *)
(* Text is a sequence of one-character strings, so that upper-casing and   *)
(* trimming are computed and not assumed.  Fractions are pairs             *)
(* <<numerator, denominator>> with a positive denominator.                 *)
(***************************************************************************)
EXTENDS Integers, Sequences, FiniteSets, TLC

VARIABLES
    pc,           \* position of the run inside the modelled part
    raw,          \* read_one_sheet: the table as read from the worksheet
    data,         \* read_one_sheet: the frame after sort / cumcount / IS_REV
    ret,          \* read_one_sheet: the frame returned (invalid units removed)
    view,         \* the filtered view (records of the month / period)
    metas_ref,    \* quota rows of the reference month
    grp,          \* the Resumo table
    row_in,       \* one Resumo row: LIQUIDO, META_MENSAL, DIAS_UTEIS, DIAS_PASSADOS
    row_out,      \* its derived columns
    one,          \* _consecutive_without_meta: df_one_vist
    ym_ref,       \* _consecutive_without_meta: ym_ref
    streak_out,   \* _consecutive_without_meta: <<streak, start_ym>>
    det,          \* the detail table of one inspector's monthly history
    df,           \* the consolidated records (all months)
    df_metas_all, \* the consolidated quota rows (all months)
    unids_tmp,    \* session_state.unids_tmp: the unit filter
    vists_tmp,    \* session_state.vists_tmp: the inspector filter
    ym_sel,       \* the selected reference month
    hist,         \* the monthly history table
    hist_table,   \* the underperformers table
    drange,       \* the selected period <<start_d, end_d>> inside the month
    kpis,         \* the totals of the view
    mes,          \* the consolidated month: prod_mes, base_mes and totals
    dia,          \* the day ranking: rank_day, used_day, prod_dia, base_dia
    charts,       \* daily evolution, production per unit, duplicate-chassis audit
    notices,      \* the sections that showed their no-data message
    sheets,       \* load loop: what read_one_sheet_cached gives for each sheet id
    sid,          \* load loop: position of the next sheet id
    all_df,       \* load loop: the non-empty record frames read so far
    all_metas,    \* load loop: the non-empty quota frames read so far
    errors        \* load loop: the sheet ids whose load raised

vars == <<pc, raw, data, ret, view, metas_ref, grp, row_in, row_out, one, ym_ref,
          streak_out, det, df, df_metas_all, unids_tmp, vists_tmp, ym_sel, hist, hist_table,
          drange, kpis, mes, dia, charts, notices, sheets, sid, all_df, all_metas, errors>>

sheetVars  == <<raw, data, ret>>
resumoVars == <<view, metas_ref, grp>>
calcVars   == <<row_in, row_out>>
streakVars == <<one, ym_ref, streak_out, det>>
histVars   == <<df, df_metas_all, unids_tmp, vists_tmp, ym_sel, hist, hist_table>>
pageVars   == <<drange, kpis, mes, dia, charts, notices>>
loadVars   == <<sheets, sid, all_df, all_metas, errors>>

\* None and NaT are the empty tuple; NaN and inf are the fractions 0/0 and 1/0
None == <<>>
NaN  == <<0, 0>>
NaT  == <<>>

\* the sections of the page that have not run
EmptyPage ==
    /\ drange = None /\ kpis = None /\ mes = None /\ dia = None
    /\ charts = None /\ notices = {}

\* the load loop has not run
EmptyLoad ==
    sheets = <<>> /\ sid = 0 /\ all_df = <<>> /\ all_metas = <<>> /\ errors = <<>>

-----------------------------------------------------------------------------
(* Generic helpers over sequences                                          *)

Range(s) == {s[i] : i \in 1..Len(s)}

\* the sequences over S of length at most n
SeqsUpTo(S, n) == UNION {[1..k -> S] : k \in 0..n}

Max2(a, b) == IF a >= b THEN a ELSE b

-----------------------------------------------------------------------------
(* Text: str.upper(), str.strip(), comparison                              *)

IsSpace(c) == c = " "

\* str.upper() on the letters in use; every other character is unchanged
UpperMap ==
    [c \in {"a", "b", "c", "d", "g", "i", "n", "o", "x", "y", "z"} |->
        CASE c = "a" -> "A" [] c = "b" -> "B" [] c = "c" -> "C" [] c = "d" -> "D"
          [] c = "g" -> "G" [] c = "i" -> "I" [] c = "n" -> "N" [] c = "o" -> "O"
          [] c = "x" -> "X" [] c = "y" -> "Y" [] c = "z" -> "Z"]

UpperChar(c) == IF c \in DOMAIN UpperMap THEN UpperMap[c] ELSE c

Upper(s) == [i \in 1..Len(s) |-> UpperChar(s[i])]

RECURSIVE LStrip(_)
LStrip(s) == IF s # <<>> /\ IsSpace(Head(s)) THEN LStrip(Tail(s)) ELSE s

RECURSIVE RStrip(_)
RStrip(s) == IF s # <<>> /\ IsSpace(s[Len(s)]) THEN RStrip(SubSeq(s, 1, Len(s) - 1)) ELSE s

Strip(s) == RStrip(LStrip(s))

\* _upper_strip(x): str(x).upper().strip()
UpperStrip(s) == Strip(Upper(s))

\* code point order of the characters in use
CodePoint ==
    [c \in {" ", "A", "B", "C", "D", "G", "I", "N", "O", "P", "S", "T", "X", "Y", "Z"} |->
        CASE c = " " -> 32
          [] c = "A" -> 65 [] c = "B" -> 66 [] c = "C" -> 67 [] c = "D" -> 68
          [] c = "G" -> 71 [] c = "I" -> 73 [] c = "N" -> 78 [] c = "O" -> 79
          [] c = "P" -> 80 [] c = "S" -> 83 [] c = "T" -> 84
          [] c = "X" -> 88 [] c = "Y" -> 89 [] c = "Z" -> 90]

\* the characters outside the table are the accented ones, after the letters
CharRank(c) == IF c \in DOMAIN CodePoint THEN CodePoint[c] ELSE 211

RECURSIVE StrLess(_, _)
\* s < t as Python compares str
StrLess(s, t) ==
    IF t = <<>> THEN FALSE
    ELSE IF s = <<>> THEN TRUE
    ELSE IF CharRank(Head(s)) # CharRank(Head(t)) THEN CharRank(Head(s)) < CharRank(Head(t))
    ELSE StrLess(Tail(s), Tail(t))

-----------------------------------------------------------------------------
(* Dates: parse_date_any                                                   *)

IsLeap(y) == (y % 4 = 0 /\ y % 100 # 0) \/ y % 400 = 0

DaysInMonth(y, m) ==
    IF m = 2 THEN (IF IsLeap(y) THEN 29 ELSE 28)
    ELSE IF m \in {4, 6, 9, 11} THEN 30 ELSE 31

ValidYMD(y, m, d) == y \in 1..9999 /\ m \in 1..12 /\ d \in 1..DaysInMonth(y, m)

\* A date text is "n1<sep>n2<sep>n3"; wd[i] is the number of digits of field i.
\* The empty cell is [sep |-> "", n |-> <<>>, wd |-> <<>>].
StrpDMY(x, sep) ==
    IF Len(x.n) = 3 /\ x.sep = sep /\ x.wd[1] <= 2 /\ x.wd[2] <= 2 /\ x.wd[3] = 4
       /\ ValidYMD(x.n[3], x.n[2], x.n[1])
    THEN <<x.n[3], x.n[2], x.n[1]>> ELSE NaT

StrpYMD(x, sep) ==
    IF Len(x.n) = 3 /\ x.sep = sep /\ x.wd[1] = 4 /\ x.wd[2] <= 2 /\ x.wd[3] <= 2
       /\ ValidYMD(x.n[1], x.n[2], x.n[3])
    THEN <<x.n[1], x.n[2], x.n[3]>> ELSE NaT

\* pd.to_datetime(s) on the texts the three formats reject: year first with "/",
\* and month first when the day-first reading has no such month
ToDatetime(x) ==
    IF Len(x.n) # 3 THEN NaT
    ELSE IF x.wd[1] = 4 /\ ValidYMD(x.n[1], x.n[2], x.n[3]) THEN <<x.n[1], x.n[2], x.n[3]>>
    ELSE IF x.wd[3] = 4 /\ ValidYMD(x.n[3], x.n[1], x.n[2]) THEN <<x.n[3], x.n[1], x.n[2]>>
    ELSE NaT

parse_date_any(x) ==
    IF x.sep = "" THEN NaT
    ELSE IF StrpDMY(x, "/") # NaT THEN StrpDMY(x, "/")
    ELSE IF StrpYMD(x, "-") # NaT THEN StrpYMD(x, "-")
    ELSE IF StrpDMY(x, "-") # NaT THEN StrpDMY(x, "-")
    ELSE ToDatetime(x)

IsDate(d) == d # NaT

\* d < e for two dates (datetime.date comparison)
DateLess(d, e) ==
    \/ d[1] < e[1]
    \/ d[1] = e[1] /\ d[2] < e[2]
    \/ d[1] = e[1] /\ d[2] = e[2] /\ d[3] < e[3]

-----------------------------------------------------------------------------
(* read_one_sheet                                                          *)

MaxRows == 3

\* " " normalises to the empty unit, one of BAN_UNIDS
RawUnits    == { <<"a", " ">>, <<"b">>, <<" ">> }
RawChassis  == { <<"x", " ">>, <<"Y">> }
RawDates    == { [sep |-> "",  n |-> <<>>,            wd |-> <<>>],
                 [sep |-> "/", n |-> <<3, 1, 2024>>,  wd |-> <<2, 2, 4>>],
                 [sep |-> "-", n |-> <<2024, 1, 5>>,  wd |-> <<4, 2, 2>>],
                 [sep |-> "-", n |-> <<7, 1, 2024>>,  wd |-> <<2, 2, 4>>] }
RawPeritos  == { <<" ">> }
RawDigitadores == { <<"z">> }

RawRows == [UNIDADE : RawUnits, DATA : RawDates, CHASSI : RawChassis,
            PERITO : RawPeritos, DIGITADOR : RawDigitadores]

\* "O_acute" and "em_dash" stand for the two non-ASCII characters of the source
BAN_UNIDS == { <<"P","O","S","T","O"," ","C","O_acute","D","I","G","O">>,
               <<"P","O","S","T","O"," ","C","O","D","I","G","O">>,
               <<"C","O_acute","D","I","G","O">>,
               <<"C","O","D","I","G","O">>,
               <<>>,
               <<"em_dash">>,
               <<"N","A","N">> }

\* the VISTORIADOR column when the sheet has both PERITO and DIGITADOR
Vistoriador(r) ==
    IF Strip(r.PERITO) # <<>> THEN UpperStrip(r.PERITO) ELSE UpperStrip(r.DIGITADOR)

\* the __YM__ column: <<year, month>> of a date, None of a value that is no date
YmOf(d) == IF IsDate(d) THEN <<d[1], d[2]>> ELSE None

\* lines 240-242 on the rows that are left: pd.NaT is an instance of datetime
\* (and so of date) whose year and month are nan, and formatting nan with
\* ":02d" raises ValueError
YmRaises(s) == \E i \in 1..Len(s) : ~IsDate(s[i].DATA)

\* lines 183-197: the normalised columns of input row i
Normalise(t) ==
    [i \in 1..Len(t) |->
        [UNIDADE     |-> UpperStrip(t[i].UNIDADE),
         CHASSI      |-> UpperStrip(t[i].CHASSI),
         DATA        |-> parse_date_any(t[i].DATA),
         VISTORIADOR |-> Vistoriador(t[i]),
         src         |-> i]]

\* the order of sort_values(["__DATA__", CHASSI]): rows without a date go last
SortKeyLess(a, b) ==
    \/ IsDate(a.DATA) /\ ~IsDate(b.DATA)
    \/ IsDate(a.DATA) /\ IsDate(b.DATA) /\ DateLess(a.DATA, b.DATA)
    \/ a.DATA = b.DATA /\ StrLess(a.CHASSI, b.CHASSI)

RECURSIVE InsertBeforeEqual(_, _)
\* a sort that is not stable: x goes before the rows of equal key
InsertBeforeEqual(s, x) ==
    IF s = <<>> THEN <<x>>
    ELSE IF ~SortKeyLess(Head(s), x) THEN <<x>> \o s
    ELSE <<Head(s)>> \o InsertBeforeEqual(Tail(s), x)

RECURSIVE InsertStable(_, _)
\* x goes behind every row of the sorted s that does not sort after it
InsertStable(s, x) ==
    IF s = <<>> THEN <<x>>
    ELSE IF SortKeyLess(x, Head(s)) THEN <<x>> \o s
    ELSE <<Head(s)>> \o InsertStable(Tail(s), x)

RECURSIVE SortFromLast(_)
\* a sort that is not stable: rows inserted from the last to the first, so
\* rows of equal key come out in reverse input order
SortFromLast(s) ==
    IF s = <<>> THEN <<>>
    ELSE CHOOSE r \in {InsertStable(p, s[1]) : p \in {SortFromLast(Tail(s))}} : TRUE

RECURSIVE SortStable(_)
\* kind="mergesort": the stable sort, rows inserted in input order
SortStable(s) ==
    IF s = <<>> THEN <<>>
    ELSE CHOOSE r \in {InsertStable(p, s[Len(s)]) :
                          p \in {SortStable(SubSeq(s, 1, Len(s) - 1))}} : TRUE

\* the other scope key: rows of the same unit and chassis before position i
CumCountUnitChassis(s, i) ==
    Cardinality({j \in 1..(i - 1) : s[j].CHASSI = s[i].CHASSI /\ s[j].UNIDADE = s[i].UNIDADE})

\* groupby(CHASSI).cumcount(): rows of the same chassis before position i
CumCount(s, i) == Cardinality({j \in 1..(i - 1) : s[j].CHASSI = s[i].CHASSI})

IsRevOf(ord) == IF ord >= 1 THEN 1 ELSE 0

\* row r with its __ORD__, IS_REV and __YM__ columns (lines 201, 202, 240)
WithOrd(r, ord) ==
    [UNIDADE     |-> r.UNIDADE,
     CHASSI      |-> r.CHASSI,
     DATA        |-> r.DATA,
     VISTORIADOR |-> r.VISTORIADOR,
     src         |-> r.src,
     ORD         |-> ord,
     IS_REV      |-> IsRevOf(ord),
     YM          |-> YmOf(r.DATA)]

\* lines 201-202 on the sorted frame
Number(s) == [i \in 1..Len(s) |-> WithOrd(s[i], CumCount(s, i))]

\* lines 199-202: sort, __ORD__, IS_REV
Classify(t) == CHOOSE c \in {Number(s) : s \in {SortStable(t)}} : TRUE

\* lines 204-206: data[~data[UNIDADE].isin(BAN_UNIDS)]
DropBanned(s) == SelectSeq(s, LAMBDA r : r.UNIDADE \notin BAN_UNIDS)

EmptyRest ==
    /\ view = <<>> /\ metas_ref = <<>> /\ grp = <<>>
    /\ row_in = None /\ row_out = None
    /\ one = <<>> /\ ym_ref = None /\ streak_out = None /\ det = None
    /\ df = <<>> /\ df_metas_all = <<>> /\ unids_tmp = {} /\ vists_tmp = {}
    /\ ym_sel = None /\ hist = <<>> /\ hist_table = <<>>
    /\ EmptyPage
    /\ EmptyLoad

InitSheet ==
    /\ pc = "read_one_sheet"
    /\ raw \in SeqsUpTo(RawRows, MaxRows)
    /\ data = <<>>
    /\ ret = <<>>
    /\ EmptyRest

read_one_sheet ==
    /\ pc = "read_one_sheet"
    /\ \E normalised \in {Normalise(raw)} :
          \E classified \in {Classify(normalised)} :
              \E kept \in {DropBanned(classified)} :
                  /\ data' = classified
                  /\ IF YmRaises(kept)
                     THEN ret' = <<>> /\ pc' = "sheet_raised"
                     ELSE ret' = kept /\ pc' = "sheet_read"
    /\ UNCHANGED <<loadVars, raw, resumoVars, calcVars, streakVars, histVars, pageVars>>

NextSheet == read_one_sheet

SpecSheet == InitSheet /\ [][NextSheet]_vars

-----------------------------------------------------------------------------
(* Claims about read_one_sheet                                             *)

\* a comes before b when the records are ordered by date (records without a
\* date last) with ties broken by the original input order
Precedes(a, b) ==
    \/ IsDate(a.DATA) /\ ~IsDate(b.DATA)
    \/ IsDate(a.DATA) /\ IsDate(b.DATA) /\ DateLess(a.DATA, b.DATA)
    \/ a.DATA = b.DATA /\ a.src < b.src

ChassisOf(t) == {t[i].CHASSI : i \in 1..Len(t)}
GroupIdx(t, c) == {i \in 1..Len(t) : t[i].CHASSI = c}

\* C1: in the returned record set, every chassis has exactly one record with
\* IS_REV = 0, the earliest of its group, and group size - 1 records with IS_REV = 1.
C1_OneOriginalPerChassisReturned ==
    pc = "sheet_read" =>
        \A c \in ChassisOf(ret) :
            LET g == GroupIdx(ret, c)
            IN  /\ Cardinality({i \in g : ret[i].IS_REV = 1}) = Max2(Cardinality(g) - 1, 0)
                /\ Cardinality({i \in g : ret[i].IS_REV = 0}) = 1
                /\ \A i \in g : ret[i].IS_REV = 0 => \A j \in g : i <= j

\* C2 as stated: within each (unit, chassis) group ordered by date, ties by input
\* order, a record is flagged repeat iff it is not the first of that group.
C2_RepeatIffNotFirstOfUnitChassis ==
    pc = "sheet_read" =>
        \A i \in 1..Len(data) :
            data[i].IS_REV = 1 <=>
                \E j \in 1..Len(data) :
                    /\ data[j].CHASSI = data[i].CHASSI
                    /\ data[j].UNIDADE = data[i].UNIDADE
                    /\ Precedes(data[j], data[i])

\* C2 amended: the group is the chassis alone, over all the records of the sheet
\* (every unit, the invalid ones included): a record is flagged repeat iff some
\* record of the same chassis precedes it by date, ties by input order; the
\* returned records carry those flags.
C2_RepeatIffNotFirstOfChassis ==
    pc \in {"sheet_read", "sheet_raised"} =>
        /\ \A i \in 1..Len(data) :
              data[i].IS_REV = 1 <=>
                  \E j \in 1..Len(data) :
                      /\ data[j].CHASSI = data[i].CHASSI
                      /\ Precedes(data[j], data[i])
        /\ \A k \in 1..Len(ret) :
              \E i \in 1..Len(data) : data[i] = ret[k]
        /\ \A i \in 1..Len(data) :
              data[i].CHASSI = UpperStrip(raw[data[i].src].CHASSI)
              /\ data[i].UNIDADE = UpperStrip(raw[data[i].src].UNIDADE)

\* a chassis seen under two valid units: the later record is flagged repeat
C2_Witness ==
    /\ pc = "sheet_read"
    /\ \E i, j \in 1..Len(ret) :
          /\ ret[i].CHASSI = ret[j].CHASSI
          /\ ret[i].UNIDADE # ret[j].UNIDADE
          /\ Precedes(ret[i], ret[j])
          /\ ret[j].IS_REV = 1

Jan(d) == <<2024, 1, d>>

\* C3: the classified frame is in (date, chassis) order, equal keys in input
\* order; the records of a chassis are numbered 0, 1, 2, ... in that order and
\* IS_REV = 1 exactly from index 1; the original of a chassis is its earliest
\* record, the first in the input among equal dates; and one chassis seen on
\* 01-05, 01-03, 01-07 comes out as 01-03, 01-05, 01-07 with flags 0, 1, 1.
C3_ClassifierNumbersByDateThenInput ==
    pc \in {"sheet_read", "sheet_raised"} =>
        /\ Len(data) = Len(raw)
        /\ \A i \in 1..(Len(data) - 1) :
              /\ ~SortKeyLess(data[i + 1], data[i])
              /\ (~SortKeyLess(data[i], data[i + 1]) => data[i].src < data[i + 1].src)
        /\ \A i \in 1..Len(data) :
              /\ data[i].ORD = Cardinality({j \in GroupIdx(data, data[i].CHASSI) : j < i})
              /\ data[i].IS_REV = (IF data[i].ORD >= 1 THEN 1 ELSE 0)
        /\ \A c \in ChassisOf(data) :
              \E i \in GroupIdx(data, c) :
                  /\ data[i].IS_REV = 0
                  /\ \A j \in GroupIdx(data, c) \ {i} :
                        data[j].IS_REV = 1 /\ Precedes(data[i], data[j])
        /\ ( /\ Len(data) = 3
             /\ \A i \in 1..3 : data[i].CHASSI = data[1].CHASSI
             /\ [i \in 1..3 |-> parse_date_any(raw[i].DATA)] = <<Jan(5), Jan(3), Jan(7)>> )
           => /\ [i \in 1..3 |-> data[i].DATA] = <<Jan(3), Jan(5), Jan(7)>>
              /\ [i \in 1..3 |-> data[i].IS_REV] = <<0, 1, 1>>

\* scenario A has been classified, and so has a chassis with two records of
\* the same date
C3_Witness ==
    /\ pc = "sheet_read"
    /\ Len(data) = 3
    /\ \A i \in 1..3 : data[i].CHASSI = data[1].CHASSI
    /\ [i \in 1..3 |-> parse_date_any(raw[i].DATA)] = <<Jan(5), Jan(3), Jan(7)>>
    /\ [i \in 1..3 |-> data[i].IS_REV] = <<0, 1, 1>>

-----------------------------------------------------------------------------
(* Numbers: pandas / numpy float columns as exact fractions                *)

Inf  == <<1, 0>>
Zero == <<0, 1>>

RECURSIVE Gcd(_, _)
Gcd(a, b) == IF b = 0 THEN a ELSE Gcd(b, a % b)

\* the fraction n / d, d > 0, in lowest terms
Frac(n, d) == LET g == Gcd(n, d) IN <<n \div g, d \div g>>

IsFrac(x) == x[2] # 0

\* Series / Series on non-negative integers: x / 0 is inf, 0 / 0 is NaN, no error
Div(a, b) == IF b = 0 THEN (IF a = 0 THEN NaN ELSE Inf) ELSE Frac(a, b)

\* np.where(cond, x, y) on one row
NpWhere(cond, x, y) == IF cond THEN x ELSE y

\* x * k and x + k for a float x and an integer k >= 0; inf and NaN stay
FracTimesInt(f, k) == IF IsFrac(f) THEN Frac(f[1] * k, f[2]) ELSE f
FracPlusInt(f, k)  == IF IsFrac(f) THEN Frac(f[1] + k * f[2], f[2]) ELSE f

\* round to the nearest integer, without the tie rule: every half goes down
RoundHalfDown(f) ==
    LET q == f[1] \div f[2]
        r == f[1] % f[2]
    IN  IF 2 * r > f[2] THEN q + 1 ELSE q

\* Series.round(0): to the nearest integer, a half to the even neighbour
RoundHalfEven(f) ==
    LET q == f[1] \div f[2]
        r == f[1] % f[2]
    IN  IF 2 * r < f[2] THEN q
        ELSE IF 2 * r > f[2] THEN q + 1
        ELSE IF q % 2 = 0 THEN q ELSE q + 1

-----------------------------------------------------------------------------
(* Resumo: the derived columns of one row (lines 567-574)                  *)

\* the division without its guard
MetaDiaUnguarded(meta, du) == Div(meta, du)

MetaDia(meta, du) == NpWhere(du > 0, Div(meta, du), Zero)

\* the shortfall without its floor at 0
FaltanteUnclamped(meta, liq) == meta - liq

FaltanteMes(meta, liq) == Max2(meta - liq, 0)

DiasRestantes(du, dp) == Max2(du - dp, 0)

NecessidadeDia(falt, dr) == NpWhere(dr > 0, Div(falt, dr), Zero)

MediaDiaAtual(liq, dp) == NpWhere(dp > 0, Div(liq, dp), Zero)

\* a projection that takes the net already produced off the pace of the days left
ProjecaoMinusNet(liq, media, dr) ==
    RoundHalfEven(FracPlusInt(FracTimesInt(media, dr), 0 - liq))

ProjecaoMes(liq, media, dr) == RoundHalfEven(FracPlusInt(FracTimesInt(media, dr), liq))

\* the percentage without its guard on the quota
TendenciaUnguarded(proj, meta) == FracTimesInt(Div(proj, meta), 100)

Tendencia(proj, meta) == NpWhere(meta > 0, FracTimesInt(Div(proj, meta), 100), NaN)

CalcRow(r) ==
    LET falt  == FaltanteMes(r.META_MENSAL, r.LIQUIDO)
        dr    == DiasRestantes(r.DIAS_UTEIS, r.DIAS_PASSADOS)
        media == MediaDiaAtual(r.LIQUIDO, r.DIAS_PASSADOS)
        proj  == ProjecaoMes(r.LIQUIDO, media, dr)
    IN  [META_DIA        |-> MetaDia(r.META_MENSAL, r.DIAS_UTEIS),
         FALTANTE_MES    |-> falt,
         DIAS_RESTANTES  |-> dr,
         NECESSIDADE_DIA |-> NecessidadeDia(falt, dr),
         MEDIA_DIA_ATUAL |-> media,
         PROJECAO_MES    |-> proj,
         TENDENCIA       |-> Tendencia(proj, r.META_MENSAL)]

MaxLiquido == 6
MaxMeta    == 6
MaxDias    == 5

\* the small values, and those of the scenario net 80, quota 100, 20 working
\* days, 10 days elapsed
LiquidoVals == 0..MaxLiquido \cup {80}
MetaVals    == 0..MaxMeta \cup {100}
DiasUteisVals    == 0..MaxDias \cup {20}
DiasPassadosVals == 0..MaxDias \cup {10}

InitCalc ==
    /\ pc = "calc"
    /\ row_in \in [LIQUIDO : LiquidoVals, META_MENSAL : MetaVals,
                   DIAS_UTEIS : DiasUteisVals, DIAS_PASSADOS : DiasPassadosVals]
    /\ row_out = None
    /\ raw = <<>> /\ data = <<>> /\ ret = <<>>
    /\ view = <<>> /\ metas_ref = <<>> /\ grp = <<>>
    /\ one = <<>> /\ ym_ref = None /\ streak_out = None /\ det = None
    /\ df = <<>> /\ df_metas_all = <<>> /\ unids_tmp = {} /\ vists_tmp = {}
    /\ ym_sel = None /\ hist = <<>> /\ hist_table = <<>>
    /\ EmptyPage
    /\ EmptyLoad

CalcDerived ==
    /\ pc = "calc"
    /\ row_out' = CalcRow(row_in)
    /\ pc' = "calc_done"
    /\ UNCHANGED <<loadVars, row_in, sheetVars, resumoVars, streakVars, histVars, pageVars>>

NextCalc == CalcDerived

SpecCalc == InitCalc /\ [][NextCalc]_vars

-----------------------------------------------------------------------------
(* Claims about the derived columns                                        *)

\* f is the fraction num / den (den > 0)
FracIs(f, num, den) == IsFrac(f) /\ f[1] * den = num * f[2]

Abs(x) == IF x < 0 THEN -x ELSE x

\* C9: every derived column equals its reference formula: META_DIA =
\* quota / working_days (0 without working days), FALTANTE_MES = max(quota - net, 0),
\* DIAS_RESTANTES = max(working_days - days_elapsed, 0), NECESSIDADE_DIA =
\* FALTANTE_MES / DIAS_RESTANTES (0 without days left), MEDIA_DIA_ATUAL =
\* net / days_elapsed (0 without days elapsed), PROJECAO_MES the integer nearest to
\* net + MEDIA_DIA_ATUAL * DIAS_RESTANTES, TENDENCIA = PROJECAO_MES / quota * 100
\* when quota > 0; and 80, 100, 20, 10 give 5, 20, 10, 2, 8, 160, 160.
C9_DerivedFieldsMatchFormulas ==
    pc = "calc_done" =>
        LET liq  == row_in.LIQUIDO
            meta == row_in.META_MENSAL
            du   == row_in.DIAS_UTEIS
            dp   == row_in.DIAS_PASSADOS
            falt == IF meta - liq > 0 THEN meta - liq ELSE 0
            dr   == IF du - dp > 0 THEN du - dp ELSE 0
            o    == row_out
        IN  /\ IF du > 0 THEN FracIs(o.META_DIA, meta, du) ELSE o.META_DIA = Zero
            /\ o.FALTANTE_MES = falt
            /\ o.DIAS_RESTANTES = dr
            /\ IF dr > 0 THEN FracIs(o.NECESSIDADE_DIA, falt, dr) ELSE o.NECESSIDADE_DIA = Zero
            /\ IF dp > 0 THEN FracIs(o.MEDIA_DIA_ATUAL, liq, dp) ELSE o.MEDIA_DIA_ATUAL = Zero
            /\ o.PROJECAO_MES \in Int
            /\ IF dp > 0
               THEN /\ 2 * Abs(o.PROJECAO_MES * dp - (liq * dp + liq * dr)) <= dp
                    /\ (2 * Abs(o.PROJECAO_MES * dp - (liq * dp + liq * dr)) = dp
                        => o.PROJECAO_MES % 2 = 0)
               ELSE o.PROJECAO_MES = liq
            /\ meta > 0 => FracIs(o.TENDENCIA, o.PROJECAO_MES * 100, meta)
            /\ (liq = 80 /\ meta = 100 /\ du = 20 /\ dp = 10)
               => o = [META_DIA |-> <<5, 1>>, FALTANTE_MES |-> 20, DIAS_RESTANTES |-> 10,
                       NECESSIDADE_DIA |-> <<2, 1>>, MEDIA_DIA_ATUAL |-> <<8, 1>>,
                       PROJECAO_MES |-> 160, TENDENCIA |-> <<160, 1>>]

\* the scenario row has been computed
C9_Witness ==
    /\ pc = "calc_done"
    /\ row_in = [LIQUIDO |-> 80, META_MENSAL |-> 100, DIAS_UTEIS |-> 20, DIAS_PASSADOS |-> 10]
    /\ row_out.PROJECAO_MES = 160

\* C10 as stated: with no working days, META_DIA, NECESSIDADE_DIA and
\* MEDIA_DIA_ATUAL are all 0.
C10_AllZeroWithoutWorkingDays ==
    (pc = "calc_done" /\ row_in.DIAS_UTEIS = 0) =>
        /\ row_out.META_DIA = Zero
        /\ row_out.NECESSIDADE_DIA = Zero
        /\ row_out.MEDIA_DIA_ATUAL = Zero

\* C10 amended: with no working days, META_DIA and NECESSIDADE_DIA are 0,
\* MEDIA_DIA_ATUAL is net / days_elapsed when days_elapsed > 0 and 0 otherwise,
\* and none of the three is the result of a division by zero (inf or NaN).
C10_ZeroQuotaAndPaceWithoutWorkingDays ==
    (pc = "calc_done" /\ row_in.DIAS_UTEIS = 0) =>
        /\ row_out.META_DIA = Zero
        /\ row_out.NECESSIDADE_DIA = Zero
        /\ IF row_in.DIAS_PASSADOS > 0
           THEN FracIs(row_out.MEDIA_DIA_ATUAL, row_in.LIQUIDO, row_in.DIAS_PASSADOS)
           ELSE row_out.MEDIA_DIA_ATUAL = Zero
        /\ IsFrac(row_out.META_DIA) /\ IsFrac(row_out.NECESSIDADE_DIA)
        /\ IsFrac(row_out.MEDIA_DIA_ATUAL)

\* a row without working days, with a quota, production and days elapsed
C10_Witness ==
    /\ pc = "calc_done"
    /\ row_in.DIAS_UTEIS = 0
    /\ row_in.META_MENSAL > 0
    /\ row_in.LIQUIDO > 0
    /\ row_in.DIAS_PASSADOS > 0
    /\ row_out.MEDIA_DIA_ATUAL # Zero

-----------------------------------------------------------------------------
(* Months and the streak: _ym_key, _ym_to_label, _status_row,              *)
(* _consecutive_without_meta                                               *)

\* __YM__ "YYYY-MM" is the pair <<YYYY, MM>>; the label "MM/YYYY" is <<MM, YYYY>>
YmToLabel(ym) == <<ym[2], ym[1]>>

\* _ym_key: chronological key
YmKey(ym) == ym[1] * 100 + ym[2]

\* a quota met only when exceeded
StatusRowStrict(liq, meta) ==
    IF meta <= 0 THEN "SEM META"
    ELSE IF liq > meta THEN "BATEU" ELSE "NAO BATEU"

\* _status_row
StatusRow(liq, meta) ==
    IF meta <= 0 THEN "SEM META"
    ELSE IF liq >= meta THEN "BATEU" ELSE "NAO BATEU"

RECURSIVE InsertByYm(_, _)
InsertByYm(s, x) ==
    IF s = <<>> THEN <<x>>
    ELSE IF YmKey(x.YM) < YmKey(Head(s).YM) THEN <<x>> \o s
    ELSE <<Head(s)>> \o InsertByYm(Tail(s), x)

RECURSIVE SortByYm(_)
\* sort_values("__YM__", key=_ym_key)
SortByYm(s) ==
    IF s = <<>> THEN <<>>
    ELSE InsertByYm(SortByYm(SubSeq(s, 1, Len(s) - 1)), s[Len(s)])

\* a walk that starts at the row before the reference month
WalkStartBefore(idx) == idx - 1

\* range(idx, -1, -1) starts at the row of the reference month
WalkStart(idx) == idx

RECURSIVE WalkBack(_, _, _, _)
\* the loop of lines 750-757 from row j down to the first row
WalkBack(s, j, streak, start_ym) ==
    IF j < 1 THEN <<streak, start_ym>>
    ELSE IF s[j].META_MENSAL <= 0 THEN <<streak, start_ym>>
    ELSE IF s[j].STATUS # "NAO BATEU" THEN <<streak, start_ym>>
    ELSE WalkBack(s, j - 1, streak + 1, s[j].YM)

consecutive_without_meta(df_one_vist, ym) ==
    IF df_one_vist = <<>> THEN <<0, None>>
    ELSE LET s == SortByYm(df_one_vist)
         IN  IF \A i \in 1..Len(s) : s[i].YM # ym THEN <<0, None>>
             ELSE LET idx == CHOOSE i \in 1..Len(s) :
                                /\ s[i].YM = ym
                                /\ \A k \in 1..(i - 1) : s[k].YM # ym
                  IN  WalkBack(s, WalkStart(idx), 0, None)

\* a counter that a month without quota leaves as it is
DetailStepKeeping(cur, r) ==
    IF r.META_MENSAL <= 0 THEN cur
    ELSE IF r.STATUS = "NAO BATEU" THEN cur + 1
    ELSE 0

\* lines 857-862: the running counter after row r
DetailStep(cur, r) ==
    IF r.META_MENSAL <= 0 THEN 0
    ELSE IF r.STATUS = "NAO BATEU" THEN cur + 1
    ELSE 0

RECURSIVE Streaks(_, _)
\* lines 855-863: the counter after each of the first k rows of s
Streaks(s, k) ==
    IF k = 0 THEN <<>>
    ELSE LET before == Streaks(s, k - 1)
             cur    == IF k = 1 THEN 0 ELSE before[k - 1]
         IN  Append(before, DetailStep(cur, s[k]))

\* lines 844-867: the months up to ym in chronological order, each with its
\* shortfall, status and running counter; None when there is no such month
Detail(h, ym) ==
    LET s == SortByYm(SelectSeq(h, LAMBDA r : YmKey(r.YM) <= YmKey(ym)))
        streaks == Streaks(s, Len(s))
    IN  IF s = <<>> THEN None
        ELSE [i \in 1..Len(s) |->
                [MES         |-> YmToLabel(s[i].YM),
                 LIQUIDO     |-> s[i].LIQUIDO,
                 META_MENSAL |-> s[i].META_MENSAL,
                 FALTANTE    |-> Max2(s[i].META_MENSAL - s[i].LIQUIDO, 0),
                 STATUS      |-> StatusRow(s[i].LIQUIDO, s[i].META_MENSAL),
                 STREAK      |-> streaks[i]]]

MaxMonths == 6

\* the k-th month of the modelled period, which starts in December 2023
FirstMonth == 2023 * 12 + 11
MonthAt(k) == LET t == FirstMonth + k - 1 IN <<t \div 12, (t % 12) + 1>>
Months == {MonthAt(k) : k \in 1..MaxMonths}

HistLiquidoVals == {0, 1}
HistMetaVals    == {0, 1}

HistRow(ym, liq, meta) ==
    [YM |-> ym, LIQUIDO |-> liq, META_MENSAL |-> meta, STATUS |-> StatusRow(liq, meta)]

RECURSIVE Histories(_)
\* one inspector's rows over the first k months, in chronological order: a
\* month has a row or has none
Histories(k) ==
    IF k = 0 THEN {<<>>}
    ELSE LET before == Histories(k - 1)
         IN  before \cup
             {Append(h, HistRow(MonthAt(k), l, q)) :
                 h \in before, l \in HistLiquidoVals, q \in HistMetaVals}

InitStreak ==
    /\ pc = "streak"
    /\ one \in Histories(MaxMonths)
    /\ ym_ref \in Months
    /\ streak_out = None /\ det = None
    /\ raw = <<>> /\ data = <<>> /\ ret = <<>>
    /\ view = <<>> /\ metas_ref = <<>> /\ grp = <<>>
    /\ row_in = None /\ row_out = None
    /\ df = <<>> /\ df_metas_all = <<>> /\ unids_tmp = {} /\ vists_tmp = {}
    /\ ym_sel = None /\ hist = <<>> /\ hist_table = <<>>
    /\ EmptyPage
    /\ EmptyLoad

ConsecutiveWithoutMeta ==
    /\ pc = "streak"
    /\ streak_out' = consecutive_without_meta(one, ym_ref)
    /\ pc' = "streak_done"
    /\ UNCHANGED <<loadVars, one, ym_ref, det, sheetVars, resumoVars, calcVars, histVars,
                   pageVars>>

\* lines 844-867: the detail view of the same inspector and reference month
DetailView ==
    /\ pc = "streak_done"
    /\ det' = Detail(one, ym_ref)
    /\ pc' = "detail_done"
    /\ UNCHANGED <<loadVars, one, ym_ref, streak_out, sheetVars, resumoVars, calcVars,
                   histVars, pageVars>>

NextStreak == ConsecutiveWithoutMeta \/ DetailView

SpecStreak == InitStreak /\ [][NextStreak]_vars

-----------------------------------------------------------------------------
(* Claims about _consecutive_without_meta                                  *)

Missed(r) == r.META_MENSAL > 0 /\ r.LIQUIDO < r.META_MENSAL

RefIdx == {i \in 1..Len(one) : one[i].YM = ym_ref}

\* C5: the streak is the length of the longest run of rows that ends at the row
\* of ym_ref and whose rows all have quota > 0 and net < quota: the row before the
\* run, if any, has quota <= 0 or net >= quota; start is the month of the first
\* row of the run; missed 03, 04, 05/2024 and met 02/2024 give 3 from 03/2024.
C5_StreakIsLongestMissedRun ==
    pc = "streak_done" =>
        /\ RefIdx = {} => streak_out = <<0, None>>
        /\ \A idx \in RefIdx :
              LET k == streak_out[1]
              IN  /\ k \in 0..idx
                  /\ \A j \in (idx - k + 1)..idx : Missed(one[j])
                  /\ idx - k >= 1 => ~Missed(one[idx - k])
                  /\ streak_out[2] = IF k = 0 THEN None ELSE one[idx - k + 1].YM
        /\ ( /\ ym_ref = <<2024, 5>>
             /\ \E i \in 1..Len(one) :
                   /\ i + 3 = Len(one)
                   /\ [j \in 0..3 |-> one[i + j].YM]
                        = [j \in 0..3 |-> <<2024, 2 + j>>]
                   /\ ~Missed(one[i]) /\ one[i].META_MENSAL > 0
                   /\ \A j \in 1..3 : Missed(one[i + j]) )
           => /\ streak_out[1] = 3
              /\ YmToLabel(streak_out[2]) = <<3, 2024>>

\* the scenario: 02/2024 met, 03 to 05/2024 missed, reference 05/2024
C5_Witness ==
    /\ pc = "streak_done"
    /\ ym_ref = <<2024, 5>>
    /\ Len(one) >= 4
    /\ [j \in 0..3 |-> one[Len(one) - 3 + j].YM] = [j \in 0..3 |-> <<2024, 2 + j>>]
    /\ one[Len(one) - 3].STATUS = "BATEU"
    /\ \A j \in 1..3 : Missed(one[Len(one) - 3 + j])
    /\ streak_out = <<3, <<2024, 3>>>>

\* quota and net of a month in the history; a month without a row has neither
QuotaIn(h, ym) ==
    IF \E i \in 1..Len(h) : h[i].YM = ym
    THEN (CHOOSE r \in Range(h) : r.YM = ym).META_MENSAL ELSE 0
NetIn(h, ym) ==
    IF \E i \in 1..Len(h) : h[i].YM = ym
    THEN (CHOOSE r \in Range(h) : r.YM = ym).LIQUIDO ELSE 0

\* C8: a streak of 0 means that in the reference month the net reached the
\* quota or there is no quota (quota <= 0) in the history for that month.
C8_ZeroStreakMeansMetOrNoQuota ==
    (pc = "streak_done" /\ streak_out[1] = 0) =>
        \/ QuotaIn(one, ym_ref) <= 0
        \/ NetIn(one, ym_ref) >= QuotaIn(one, ym_ref)

\* a streak of 0 for a month whose quota was met, after a missed month
C8_Witness ==
    /\ pc = "streak_done"
    /\ streak_out[1] = 0
    /\ QuotaIn(one, ym_ref) > 0
    /\ NetIn(one, ym_ref) >= QuotaIn(one, ym_ref)
    /\ \E i \in 1..Len(one) : YmKey(one[i].YM) < YmKey(ym_ref) /\ Missed(one[i])

\* C22: in the detail view, the running counter in the row of the reference
\* month equals the streak that _consecutive_without_meta returns for the same
\* history and reference month; a reference month without a row has no detail
\* row and a streak of 0.
C22_DetailCounterEqualsStreak ==
    pc = "detail_done" =>
        /\ \A i \in 1..Len(det) :
              det[i].MES = YmToLabel(ym_ref) => det[i].STREAK = streak_out[1]
        /\ RefIdx # {} => \E i \in 1..Len(det) : det[i].MES = YmToLabel(ym_ref)
        /\ RefIdx = {} =>
              /\ \A i \in 1..Len(det) : det[i].MES # YmToLabel(ym_ref)
              /\ streak_out[1] = 0

\* a streak of two months that follows a month without quota which itself
\* follows a missed month, in a history that goes on after the reference month
C22_Witness ==
    /\ pc = "detail_done"
    /\ streak_out[1] = 2
    /\ Len(det) >= 4 /\ Len(one) > Len(det)
    /\ det[Len(det)].MES = YmToLabel(ym_ref)
    /\ det[Len(det)].STREAK = 2
    /\ det[Len(det) - 2].META_MENSAL = 0 /\ det[Len(det) - 2].STREAK = 0
    /\ det[Len(det) - 3].STREAK >= 1

-----------------------------------------------------------------------------
(* Resumo por Vistoriador: grp (lines 510-574)                             *)

\* date.toordinal() and date.weekday(): Monday is 0
DaysBeforeYear(y) ==
    365 * (y - 1) + ((y - 1) \div 4) - ((y - 1) \div 100) + ((y - 1) \div 400)

RECURSIVE DaysBeforeMonth(_, _)
DaysBeforeMonth(y, m) ==
    IF m = 1 THEN 0 ELSE DaysBeforeMonth(y, m - 1) + DaysInMonth(y, m - 1)

ToOrdinal(d) == DaysBeforeYear(d[1]) + DaysBeforeMonth(d[1], d[2]) + d[3]

Weekday(d) == (ToOrdinal(d) + 6) % 7

\* a working week that runs to Saturday
IsWorkdayWithSaturday(d) == IsDate(d) /\ Weekday(d) < 6

\* _is_workday
IsWorkday(d) == IsDate(d) /\ Weekday(d) < 5

\* a text cell left empty by a merge: NaN, "nan" as text
NoText == <<"n", "a", "n">>

RECURSIVE SortNames(_)
\* the group keys in ascending order, as groupby returns them
SortNames(S) ==
    IF S = {} THEN <<>>
    ELSE LET first == CHOOSE x \in S : \A y \in S \ {x} : StrLess(x, y)
         IN  <<first>> \o SortNames(S \ {first})

RowsOf(t, v) == {i \in 1..Len(t) : t[i].VISTORIADOR = v}

\* lines 510-520: one row per VISTORIADOR of the view
AggView(t) ==
    LET names == SortNames({t[i].VISTORIADOR : i \in 1..Len(t)})
    IN  [k \in 1..Len(names) |->
            LET rows == RowsOf(t, names[k])
                vist == Cardinality(rows)
                rev  == Cardinality({i \in rows : t[i].IS_REV = 1})
            IN  [VISTORIADOR |-> names[k],
                 VISTORIAS   |-> vist,
                 REVISTORIAS |-> rev,
                 DIAS_ATIVOS |-> Cardinality({t[i].DATA : i \in rows} \ {NaT}),
                 UNIDADES    |-> Cardinality({t[i].UNIDADE : i \in rows}),
                 LIQUIDO     |-> vist - rev]]

\* lines 522-538: _calc_wd_passados merged on VISTORIADOR, missing filled with 0
DiasPassados(t, v) ==
    Cardinality({t[i].DATA : i \in {j \in RowsOf(t, v) : IsWorkday(t[j].DATA)}})

\* lines 541-545: the month of the latest date of the view
RefYm(t) ==
    IF t = <<>> THEN None
    ELSE LET dates == {t[i].DATA : i \in 1..Len(t)} \ {NaT}
         IN  YmOf(CHOOSE d \in dates : \A e \in dates : ~DateLess(d, e))

\* lines 547-550
MetasRef(metas, ym) ==
    IF ym # None /\ metas # <<>> THEN SelectSeq(metas, LAMBDA q : q.YM = ym) ELSE <<>>

\* one row of grp joined to one quota row
Joined(g, dp, unid, tipo, meta, du) ==
    [VISTORIADOR |-> g.VISTORIADOR, VISTORIAS |-> g.VISTORIAS,
     REVISTORIAS |-> g.REVISTORIAS, LIQUIDO |-> g.LIQUIDO,
     DIAS_ATIVOS |-> g.DIAS_ATIVOS, UNIDADES |-> g.UNIDADES,
     DIAS_PASSADOS |-> dp,
     UNIDADE |-> unid, TIPO |-> tipo, META_MENSAL |-> meta, DIAS_UTEIS |-> du]

\* grp.merge(metas_ref, on="VISTORIADOR", how="left") for one row of grp: one
\* row per quota row of that name, or one row without quota (0 after fillna)
MergeRow(g, dp, mr) ==
    LET hits == SelectSeq(mr, LAMBDA q : q.VISTORIADOR = g.VISTORIADOR)
    IN  IF hits = <<>> THEN <<Joined(g, dp, NoText, NoText, 0, 0)>>
        ELSE [k \in 1..Len(hits) |->
                Joined(g, dp, hits[k].UNIDADE, hits[k].TIPO,
                       hits[k].META_MENSAL, hits[k].DIAS_UTEIS)]

RECURSIVE MergeMetas(_, _, _, _)
\* lines 552-565 from row k of the aggregate on
MergeMetas(g, t, mr, k) ==
    IF k > Len(g) THEN <<>>
    ELSE (IF mr # <<>>
          THEN MergeRow(g[k], DiasPassados(t, g[k].VISTORIADOR), mr)
          ELSE <<Joined(g[k], DiasPassados(t, g[k].VISTORIADOR), <<>>, <<>>, 0, 0)>>)
         \o MergeMetas(g, t, mr, k + 1)

\* the text shown for a missing value
Dash == <<"dash">>

\* lines 596-602: chip_tend, the percentage with no decimals and its mark
ChipTend(p) ==
    IF p = NaN THEN Dash
    ELSE IF p = Inf THEN <<Inf, "rocket">>
    ELSE IF p[1] >= 100 * p[2] THEN <<RoundHalfEven(p), "rocket">>
    ELSE IF p[1] >= 95 * p[2] THEN <<RoundHalfEven(p), "strong">>
    ELSE IF p[1] >= 85 * p[2] THEN <<RoundHalfEven(p), "grimace">>
    ELSE <<RoundHalfEven(p), "worried">>

\* lines 567-574 and 626 on one joined row
WithDerived(j) ==
    LET c == CalcRow([LIQUIDO |-> j.LIQUIDO, META_MENSAL |-> j.META_MENSAL,
                      DIAS_UTEIS |-> j.DIAS_UTEIS, DIAS_PASSADOS |-> j.DIAS_PASSADOS])
    IN  [base |-> j, calc |-> c, fmt |-> [TENDENCIA |-> ChipTend(c.TENDENCIA)]]

BuildGrp(t, mr) ==
    LET merged == CHOOSE x \in {MergeMetas(g, t, mr, 1) : g \in {AggView(t)}} : TRUE
    IN  [k \in 1..Len(merged) |-> WithDerived(merged[k])]

MaxView == 3

ViewNames == { <<"A">>, <<"B">> }
\* Friday 5, Saturday 6 and Monday 8 January 2024
ViewDates == { <<2024, 1, 5>>, <<2024, 1, 6>>, <<2024, 1, 8>> }

ViewRows == [VISTORIADOR : ViewNames, UNIDADE : { <<"A">> }, DATA : ViewDates,
             IS_REV : {0, 1}]

\* the views of one month come out of a sheet sorted by date
DateSorted(t) == \A i \in 1..(Len(t) - 1) : ~DateLess(t[i + 1].DATA, t[i].DATA)

QuotaRow(v, unid, meta, du, ym) ==
    [VISTORIADOR |-> v, UNIDADE |-> unid, TIPO |-> <<"F">>,
     META_MENSAL |-> meta, DIAS_UTEIS |-> du, YM |-> ym]

\* the METAS rows: per name and unit, no row or one of two rows
QuotaChoices ==
    << { <<>>, <<QuotaRow(<<"A">>, <<"A">>, 2, 2, <<2024, 1>>)>>,
               <<QuotaRow(<<"A">>, <<"A">>, 0, 0, <<2024, 1>>)>> },
       { <<>>, <<QuotaRow(<<"A">>, <<"B">>, 2, 2, <<2024, 1>>)>>,
               <<QuotaRow(<<"A">>, <<"B">>, 3, 0, <<2024, 1>>)>> },
       { <<>>, <<QuotaRow(<<"B">>, <<"A">>, 2, 2, <<2024, 1>>)>>,
               <<QuotaRow(<<"B">>, <<"A">>, 2, 2, <<2023, 12>>)>> } >>

MetasTables ==
    {a \o b \o c : a \in QuotaChoices[1], b \in QuotaChoices[2], c \in QuotaChoices[3]}

InitResumo ==
    /\ pc = "resumo"
    /\ view \in {t \in SeqsUpTo(ViewRows, MaxView) : DateSorted(t)}
    /\ df_metas_all \in MetasTables
    /\ metas_ref = <<>>
    /\ grp = <<>>
    /\ raw = <<>> /\ data = <<>> /\ ret = <<>>
    /\ row_in = None /\ row_out = None
    /\ one = <<>> /\ ym_ref = None /\ streak_out = None /\ det = None
    /\ df = <<>> /\ unids_tmp = {} /\ vists_tmp = {}
    /\ ym_sel = None /\ hist = <<>> /\ hist_table = <<>>
    /\ EmptyPage
    /\ EmptyLoad

BuildResumo ==
    /\ pc = "resumo"
    /\ \E mr \in {MetasRef(df_metas_all, RefYm(view))} :
          /\ metas_ref' = mr
          /\ grp' = BuildGrp(view, mr)
    /\ pc' = "resumo_done"
    /\ UNCHANGED <<loadVars, view, sheetVars, calcVars, streakVars, pageVars,
                   df, df_metas_all, unids_tmp, vists_tmp, ym_sel, hist, hist_table>>

NextResumo == BuildResumo

SpecResumo == InitResumo /\ [][NextResumo]_vars

-----------------------------------------------------------------------------
(* Claims about the Resumo table                                           *)

\* C4: every inspector with a record in the view has exactly one row in grp,
\* also when the quota table of the reference month has several rows for the name.
C4_OneResumoRowPerInspector ==
    pc = "resumo_done" =>
        \A i \in 1..Len(view) :
            Cardinality({k \in 1..Len(grp) :
                            grp[k].base.VISTORIADOR = view[i].VISTORIADOR}) = 1

-----------------------------------------------------------------------------
(* Historico: hist and hist_table (lines 664-814)                          *)

\* lines 665-671: the unit and inspector filters, no date range
HistBase(d, unids, vists) ==
    SelectSeq(d, LAMBDA r : /\ (unids = {} \/ r.UNIDADE \in unids)
                            /\ (vists = {} \/ r.VISTORIADOR \in vists))

\* the order of the group keys (__YM__, VISTORIADOR)
GroupKeyLess(a, b) ==
    \/ YmKey(a[1]) < YmKey(b[1])
    \/ a[1] = b[1] /\ StrLess(a[2], b[2])

RECURSIVE SortGroupKeys(_)
SortGroupKeys(S) ==
    IF S = {} THEN <<>>
    ELSE LET first == CHOOSE x \in S : \A y \in S \ {x} : GroupKeyLess(x, y)
         IN  <<first>> \o SortGroupKeys(S \ {first})

\* lines 674-680: one row per month and inspector that has a record
HistProd(hb) ==
    LET keys == SortGroupKeys({<<hb[i].YM, hb[i].VISTORIADOR>> : i \in 1..Len(hb)})
    IN  [k \in 1..Len(keys) |->
            LET rows == {i \in 1..Len(hb) :
                            hb[i].YM = keys[k][1] /\ hb[i].VISTORIADOR = keys[k][2]}
                vist == Cardinality(rows)
                rev  == Cardinality({i \in rows : hb[i].IS_REV = 1})
            IN  [YM |-> keys[k][1], VISTORIADOR |-> keys[k][2],
                 VISTORIAS |-> vist, REVISTORIAS |-> rev, LIQUIDO |-> vist - rev]]

\* lines 683-703 and 708: the quota rows of a month and name consolidated by
\* max, 0 when there is none
MetasM(metas, ym, v) ==
    LET qs == {metas[i].META_MENSAL :
                  i \in {j \in 1..Len(metas) : metas[j].YM = ym /\ metas[j].VISTORIADOR = v}}
    IN  IF qs = {} THEN 0 ELSE CHOOSE q \in qs : \A o \in qs : o <= q

\* lines 706-722 on one row of hist_prod
HistJoin(p, metas) ==
    LET meta == MetasM(metas, p.YM, p.VISTORIADOR)
    IN  [YM |-> p.YM, VISTORIADOR |-> p.VISTORIADOR, VISTORIAS |-> p.VISTORIAS,
         REVISTORIAS |-> p.REVISTORIAS, LIQUIDO |-> p.LIQUIDO,
         META_MENSAL |-> meta, FALTANTE |-> Max2(meta - p.LIQUIDO, 0),
         STATUS |-> StatusRow(p.LIQUIDO, meta)]

HistLess(a, b) ==
    \/ StrLess(a.VISTORIADOR, b.VISTORIADOR)
    \/ a.VISTORIADOR = b.VISTORIADOR /\ YmKey(a.YM) < YmKey(b.YM)

RECURSIVE InsertHist(_, _)
InsertHist(s, x) ==
    IF s = <<>> THEN <<x>>
    ELSE IF HistLess(x, Head(s)) THEN <<x>> \o s
    ELSE <<Head(s)>> \o InsertHist(Tail(s), x)

RECURSIVE SortHist(_)
\* line 725: sort_values(["VISTORIADOR", "__YM__"])
SortHist(s) ==
    IF s = <<>> THEN <<>>
    ELSE InsertHist(SortHist(SubSeq(s, 1, Len(s) - 1)), s[Len(s)])

BuildHistRows(d, metas, unids, vists) ==
    LET prod == CHOOSE x \in {HistProd(hb) : hb \in {HistBase(d, unids, vists)}} : TRUE
    IN  SortHist([k \in 1..Len(prod) |-> HistJoin(prod[k], metas)])

\* lines 728-729
NaoBateu(h, ym) ==
    SelectSeq(h, LAMBDA r : r.YM = ym /\ r.META_MENSAL > 0 /\ r.STATUS = "NAO BATEU")

RECURSIVE UniqueNames(_)
\* nao_bateu["VISTORIADOR"].unique(): first occurrences, in order
UniqueNames(s) ==
    IF s = <<>> THEN <<>>
    ELSE LET before == UniqueNames(SubSeq(s, 1, Len(s) - 1))
             v == s[Len(s)].VISTORIADOR
         IN  IF v \in Range(before) THEN before ELSE Append(before, v)

\* lines 792-808: the row of one inspector of nao_bateu
HistTableRow(h, nb, v, ym) ==
    LET sw  == CHOOSE x \in {consecutive_without_meta(o, ym) :
                                o \in {SelectSeq(h, LAMBDA r : r.VISTORIADOR = v)}} : TRUE
        cur == SelectSeq(nb, LAMBDA r : r.VISTORIADOR = v)[1]
    IN  [VISTORIADOR |-> v, META_MENSAL |-> cur.META_MENSAL, LIQUIDO |-> cur.LIQUIDO,
         FALTANTE |-> cur.FALTANTE,
         MESES_CONSECUTIVOS_SEM_META |-> sw[1],
         INICIO_DA_SEQUENCIA |-> IF sw[2] # None THEN YmToLabel(sw[2]) ELSE None]

\* descending streak, descending shortfall, ascending net
HistTableLess(a, b) ==
    \/ a.MESES_CONSECUTIVOS_SEM_META > b.MESES_CONSECUTIVOS_SEM_META
    \/ /\ a.MESES_CONSECUTIVOS_SEM_META = b.MESES_CONSECUTIVOS_SEM_META
       /\ \/ a.FALTANTE > b.FALTANTE
          \/ a.FALTANTE = b.FALTANTE /\ a.LIQUIDO < b.LIQUIDO

RECURSIVE InsertHistTable(_, _)
InsertHistTable(s, x) ==
    IF s = <<>> THEN <<x>>
    ELSE IF HistTableLess(x, Head(s)) THEN <<x>> \o s
    ELSE <<Head(s)>> \o InsertHistTable(Tail(s), x)

RECURSIVE SortHistTable(_)
\* lines 811-814
SortHistTable(s) ==
    IF s = <<>> THEN <<>>
    ELSE InsertHistTable(SortHistTable(SubSeq(s, 1, Len(s) - 1)), s[Len(s)])

\* lines 787-814
BuildHistTable(h, ym) ==
    LET nb    == NaoBateu(h, ym)
        names == UniqueNames(nb)
    IN  SortHistTable([k \in 1..Len(names) |-> HistTableRow(h, nb, names[k], ym)])

MaxCell == 2

\* the records of one inspector in one month: how many, and whether one of
\* them is a repeat
HistCells == {c \in (0..MaxCell) \X (0..1) : c[2] <= c[1]}

CellRecords(ym, v, unid, c) ==
    [k \in 1..c[1] |-> [YM |-> ym, VISTORIADOR |-> v, UNIDADE |-> unid,
                        IS_REV |-> IF k <= c[2] THEN 1 ELSE 0]]

\* the consolidated dataset: inspector A of unit U over three months, and
\* inspector B of unit W in the last of them
DfTables ==
    {CellRecords(MonthAt(1), <<"A">>, <<"U">>, c1)
        \o CellRecords(MonthAt(2), <<"A">>, <<"U">>, c2)
        \o CellRecords(MonthAt(3), <<"A">>, <<"U">>, c3) \o b :
        c1 \in HistCells, c2 \in HistCells, c3 \in HistCells,
        b \in {<<>>, CellRecords(MonthAt(3), <<"B">>, <<"W">>, <<1, 0>>)}}

HistQuotaChoices ==
    << { <<>>, <<QuotaRow(<<"A">>, <<"U">>, 2, 2, MonthAt(1))>> },
       { <<>>, <<QuotaRow(<<"A">>, <<"U">>, 2, 2, MonthAt(2))>> },
       { <<>>, <<QuotaRow(<<"A">>, <<"U">>, 2, 2, MonthAt(3))>>,
               <<QuotaRow(<<"A">>, <<"U">>, 1, 2, MonthAt(3)),
                 QuotaRow(<<"A">>, <<"W">>, 2, 2, MonthAt(3))>> },
       { <<>>, <<QuotaRow(<<"B">>, <<"W">>, 1, 2, MonthAt(3))>> } >>

HistQuotaTables ==
    {a \o b \o c \o d : a \in HistQuotaChoices[1], b \in HistQuotaChoices[2],
                        c \in HistQuotaChoices[3], d \in HistQuotaChoices[4]}

\* lines 418-432: the months that have a record (the run stops when none has)
YmAll(d) == {d[i].YM : i \in 1..Len(d)}

InitHist ==
    /\ pc = "hist"
    /\ df \in DfTables \ {<<>>}
    /\ df_metas_all \in HistQuotaTables
    /\ unids_tmp \in {{}, { <<"U">> }}
    /\ vists_tmp \in {{}, { <<"A">> }}
    /\ ym_sel \in YmAll(df)
    /\ hist = <<>>
    /\ hist_table = <<>>
    /\ EmptyPage
    /\ EmptyLoad
    /\ raw = <<>> /\ data = <<>> /\ ret = <<>>
    /\ view = <<>> /\ metas_ref = <<>> /\ grp = <<>>
    /\ row_in = None /\ row_out = None
    /\ one = <<>> /\ ym_ref = None /\ streak_out = None /\ det = None

BuildHist ==
    /\ pc = "hist"
    /\ \E h \in {BuildHistRows(df, df_metas_all, unids_tmp, vists_tmp)} :
          /\ hist' = h
          /\ hist_table' = BuildHistTable(h, ym_sel)
    /\ pc' = "hist_done"
    /\ UNCHANGED <<loadVars, df, df_metas_all, unids_tmp, vists_tmp, ym_sel,
                   sheetVars, resumoVars, calcVars, streakVars, pageVars>>

NextHist == BuildHist

SpecHist == InitHist /\ [][NextHist]_vars

-----------------------------------------------------------------------------
(* Claims about the underperformers table                                  *)

\* months counted from year 0, of a (year, month) pair and of a label
MonthIndex(ym) == ym[1] * 12 + ym[2] - 1
MonthOfIndex(i) == <<i \div 12, (i % 12) + 1>>

\* net production of an inspector in a month over the filtered records
NetOf(v, ym) ==
    LET hb == HistBase(df, unids_tmp, vists_tmp)
    IN  Cardinality({i \in 1..Len(hb) :
            hb[i].VISTORIADOR = v /\ hb[i].YM = ym /\ hb[i].IS_REV = 0})

\* C6: the months of a streak are calendar-consecutive: a streak of k that
\* starts in month s and ends in the reference month r spans exactly the k
\* calendar months s..r, and in each of them quota > 0 and net < quota.
C6_StreakMonthsCalendarConsecutive ==
    pc = "hist_done" =>
        \A k \in 1..Len(hist_table) :
            LET t == hist_table[k]
                n == t.MESES_CONSECUTIVOS_SEM_META
                r == MonthIndex(ym_sel)
                s == MonthIndex(<<t.INICIO_DA_SEQUENCIA[2], t.INICIO_DA_SEQUENCIA[1]>>)
            IN  n >= 1 =>
                    /\ r - s + 1 = n
                    /\ \A m \in s..r :
                          /\ MetasM(df_metas_all, MonthOfIndex(m), t.VISTORIADOR) > 0
                          /\ NetOf(t.VISTORIADOR, MonthOfIndex(m))
                                < MetasM(df_metas_all, MonthOfIndex(m), t.VISTORIADOR)

\* C7: an inspector with records under the filters is listed in hist_table
\* exactly when, in the reference month, quota > 0 and net (0 without records
\* in that month) < quota; every listed inspector has a streak of at least 1.
C7_ListedIffMissedQuotaInReferenceMonth ==
    pc = "hist_done" =>
        LET hb == HistBase(df, unids_tmp, vists_tmp)
        IN  \A v \in {hb[i].VISTORIADOR : i \in 1..Len(hb)} :
                LET q == MetasM(df_metas_all, ym_sel, v)
                    listed == {k \in 1..Len(hist_table) : hist_table[k].VISTORIADOR = v}
                IN  /\ (listed # {}) <=> (q > 0 /\ NetOf(v, ym_sel) < q)
                    /\ \A k \in listed : hist_table[k].MESES_CONSECUTIVOS_SEM_META >= 1

-----------------------------------------------------------------------------
(* Claims about the Resumo table: quota, net and days elapsed              *)

\* the quota rows of the reference month that carry the name v
QuotaRowsOf(v) ==
    {i \in 1..Len(df_metas_all) :
        df_metas_all[i].YM = RefYm(view) /\ df_metas_all[i].VISTORIADOR = v}

\* a row of grp without quota: no row of the reference month, or quota 0
NoQuota(g) ==
    \/ QuotaRowsOf(g.base.VISTORIADOR) = {}
    \/ g.base.META_MENSAL = 0

\* C11: an inspector with production but no quota row of the reference month
\* (or a quota of 0) has quota 0, shortfall 0, required pace 0 and an undefined
\* trend shown as the dash; so has the row with no quota and net 50.
C11_NoQuotaGivesZeroShortfallAndUndefinedTrend ==
    /\ pc = "resumo_done" =>
          \A k \in 1..Len(grp) :
              NoQuota(grp[k]) =>
                  /\ grp[k].base.META_MENSAL = 0
                  /\ grp[k].calc.FALTANTE_MES = 0
                  /\ grp[k].calc.NECESSIDADE_DIA = Zero
                  /\ grp[k].calc.TENDENCIA = NaN
                  /\ grp[k].fmt.TENDENCIA = Dash
    /\ \A dp \in DiasPassadosVals :
          LET c == CalcRow([LIQUIDO |-> 50, META_MENSAL |-> 0,
                            DIAS_UTEIS |-> 0, DIAS_PASSADOS |-> dp])
          IN  /\ c.FALTANTE_MES = 0
              /\ c.NECESSIDADE_DIA = Zero
              /\ c.TENDENCIA = NaN
              /\ ChipTend(c.TENDENCIA) = Dash

\* an inspector with net production and no quota row next to one who has a
\* quota row of the reference month
C11_Witness ==
    /\ pc = "resumo_done"
    /\ metas_ref # <<>>
    /\ \E k \in 1..Len(grp) :
          /\ QuotaRowsOf(grp[k].base.VISTORIADOR) = {}
          /\ grp[k].base.LIQUIDO > 0
          /\ grp[k].fmt.TENDENCIA = Dash
    /\ \E k \in 1..Len(grp) :
          /\ grp[k].base.META_MENSAL = 0
          /\ QuotaRowsOf(grp[k].base.VISTORIADOR) # {}

-----------------------------------------------------------------------------
(* One run of the page over the consolidated dataset (lines 418-1188)      *)

DateLeq(d, e) == ~DateLess(e, d)

MaxOfDates(S) == CHOOSE d \in S : \A e \in S : DateLeq(e, d)
MinOfDates(S) == CHOOSE d \in S : \A e \in S : DateLeq(d, e)

\* lines 418 and 436: the valid dates of df that fall in month ym
DatasMes(d, ym) == {d[i].DATA : i \in {j \in 1..Len(d) : YmOf(d[j].DATA) = ym}}

\* lines 465-477: unit filter, month, period, inspector filter
FilterView(d, unids, ym, rng, vists) ==
    SelectSeq(d, LAMBDA r :
        /\ (unids = {} \/ r.UNIDADE \in unids)
        /\ IsDate(r.DATA) /\ YmOf(r.DATA) = ym
        /\ DateLeq(rng[1], r.DATA) /\ DateLeq(r.DATA, rng[2])
        /\ (vists = {} \/ r.VISTORIADOR \in vists))

\* Kpis with the share of repeats divided without looking at the total
KpisUnguarded(t) ==
    LET total == Len(t)
        rev   == Cardinality({i \in 1..Len(t) : t[i].IS_REV = 1})
    IN  [vistorias_total   |-> total,
         revistorias_total |-> rev,
         liq_total         |-> total - rev,
         pct_rev           |-> Div(100 * rev, total)]

\* lines 486-489
Kpis(t) ==
    LET total == Len(t)
        rev   == Cardinality({i \in 1..Len(t) : t[i].IS_REV = 1})
    IN  [vistorias_total   |-> total,
         revistorias_total |-> rev,
         liq_total         |-> total - rev,
         pct_rev           |-> IF total # 0 THEN Frac(100 * rev, total) ELSE Zero]

\* groupby("VISTORIADOR").agg(size, sum) and the net column (lines 975-977,
\* 1111-1114)
ProdBy(t) ==
    LET names == SortNames({t[i].VISTORIADOR : i \in 1..Len(t)})
    IN  [k \in 1..Len(names) |->
            LET rows == RowsOf(t, names[k])
                vist == Cardinality(rows)
                rev  == Cardinality({i \in rows : t[i].IS_REV = 1})
            IN  [VISTORIADOR |-> names[k], VISTORIAS |-> vist,
                 REVISTORIAS |-> rev, LIQUIDO |-> vist - rev]]

\* the quota rows of month ym (lines 979-982, 1117-1120)
MetasJoin(metas, ym) == SelectSeq(metas, LAMBDA q : q.YM = ym)

\* one row of prod_mes joined to the quota rows of its name (lines 984-988)
BaseMesRow(p, mj) ==
    LET hits == SelectSeq(mj, LAMBDA q : q.VISTORIADOR = p.VISTORIADOR)
        MesRow(meta) == [VISTORIADOR |-> p.VISTORIADOR, VISTORIAS |-> p.VISTORIAS,
                      REVISTORIAS |-> p.REVISTORIAS, LIQUIDO |-> p.LIQUIDO,
                      META_MENSAL |-> meta,
                      ATING |-> NpWhere(meta > 0,
                                        FracTimesInt(Div(p.VISTORIAS, meta), 100), NaN)]
    IN  IF hits = <<>> THEN <<MesRow(0)>>
        ELSE [k \in 1..Len(hits) |-> MesRow(hits[k].META_MENSAL)]

RECURSIVE BaseMes(_, _, _)
\* prod_mes.merge(metas_join, on="VISTORIADOR", how="left") from row k on
BaseMes(prod, mj, k) ==
    IF k > Len(prod) THEN <<>>
    ELSE BaseMesRow(prod[k], mj) \o BaseMes(prod, mj, k + 1)

RECURSIVE SumOf(_, _)
\* the sum of column c of a table
SumOf(t, c) == IF t = <<>> THEN 0 ELSE t[1][c] + SumOf(Tail(t), c)

\* lines 965-994: None when the view has no date
BuildMes(t, metas) ==
    LET datas_ok == {t[i].DATA : i \in {j \in 1..Len(t) : IsDate(t[j].DATA)}}
    IN  IF datas_ok = {} THEN None
        ELSE LET ref      == MaxOfDates(datas_ok)
                 view_mes == SelectSeq(t, LAMBDA r : IsDate(r.DATA) /\ YmOf(r.DATA) = YmOf(ref))
                 prod     == ProdBy(view_mes)
                 base     == BaseMes(prod, MetasJoin(metas, YmOf(ref)), 1)
                 meta_tot == SumOf(base, "META_MENSAL")
                 vist_tot == SumOf(base, "VISTORIAS")
             IN  [ref_ym   |-> YmOf(ref),
                  view_mes |-> view_mes,
                  prod_mes |-> prod,
                  base_mes |-> base,
                  meta_tot |-> meta_tot,
                  vist_tot |-> vist_tot,
                  rev_tot  |-> SumOf(base, "REVISTORIAS"),
                  liq_tot  |-> SumOf(base, "LIQUIDO"),
                  ating_g  |-> IF meta_tot > 0 THEN Frac(vist_tot * 100, meta_tot) ELSE NaN]

\* a fallback that always takes the latest day with records
UsedDayLatest(dates_avail, rank_day) ==
    IF rank_day \in dates_avail THEN rank_day ELSE MaxOfDates(dates_avail)

\* lines 1097-1103: the day shown for the requested day
UsedDay(dates_avail, rank_day) ==
    IF rank_day \in dates_avail THEN rank_day
    ELSE LET cands == {d \in dates_avail : DateLeq(d, rank_day)}
         IN  IF cands # {} THEN MaxOfDates(cands) ELSE MaxOfDates(dates_avail)

\* one row of prod_dia joined to the quota rows of its name (lines 1122-1128)
BaseDiaRow(p, mj) ==
    LET hits == SelectSeq(mj, LAMBDA q : q.VISTORIADOR = p.VISTORIADOR)
        DiaRow(meta, du) ==
            LET meta_dia == MetaDia(meta, du)
            IN  [VISTORIADOR |-> p.VISTORIADOR, VISTORIAS_DIA |-> p.VISTORIAS,
                 REVISTORIAS_DIA |-> p.REVISTORIAS, LIQUIDO_DIA |-> p.LIQUIDO,
                 META_MENSAL |-> meta, DIAS_UTEIS |-> du, META_DIA |-> meta_dia,
                 ATING_DIA |-> NpWhere(meta_dia[1] > 0,
                                       Frac(p.VISTORIAS * 100 * meta_dia[2], meta_dia[1]),
                                       NaN)]
    IN  IF hits = <<>> THEN <<DiaRow(0, 0)>>
        ELSE [k \in 1..Len(hits) |-> DiaRow(hits[k].META_MENSAL, hits[k].DIAS_UTEIS)]

RECURSIVE BaseDia(_, _, _)
BaseDia(prod, mj, k) ==
    IF k > Len(prod) THEN <<>>
    ELSE BaseDiaRow(prod[k], mj) \o BaseDia(prod, mj, k + 1)

\* lines 1088-1128 for the requested day
BuildDia(t, metas, rank_day) ==
    LET dates_avail == {t[i].DATA : i \in {j \in 1..Len(t) : IsDate(t[j].DATA)}}
        used_day    == UsedDay(dates_avail, rank_day)
        view_dia    == SelectSeq(t, LAMBDA r : r.DATA = used_day)
        prod        == ProdBy(view_dia)
    IN  [rank_day |-> rank_day,
         used_day |-> used_day,
         info_msg |-> IF rank_day \in dates_avail THEN None ELSE <<rank_day, used_day>>,
         prod_dia |-> prod,
         base_dia |-> BaseDia(prod, MetasJoin(metas, YmOf(used_day)), 1)]

RECURSIVE SortDates(_)
\* the dates of S in ascending order
SortDates(S) ==
    IF S = {} THEN <<>>
    ELSE LET m == MinOfDates(S) IN <<m>> \o SortDates(S \ {m})

\* lines 878-882: one row per date of the view, rows without a date dropped,
\* in date order
DailyOf(t) ==
    LET days == SortDates({t[i].DATA : i \in {j \in 1..Len(t) : IsDate(t[j].DATA)}})
    IN  [k \in 1..Len(days) |->
            LET rows == {i \in 1..Len(t) : t[i].DATA = days[k]}
                vist == Cardinality(rows)
                rev  == Cardinality({i \in rows : t[i].IS_REV = 1})
            IN  [DATA |-> days[k], VISTORIAS |-> vist, REVISTORIAS |-> rev,
                 LIQUIDO |-> vist - rev]]

\* lines 909-912: the net production of each unit of the view; the chart
\* orders its bars itself (sort='-y'), so the rows are kept as a set
ByUnid(t) ==
    {[UNIDADE |-> u,
      liq |-> Cardinality({i \in 1..Len(t) : t[i].UNIDADE = u /\ t[i].IS_REV = 0})] :
        u \in {t[i].UNIDADE : i \in 1..Len(t)}}

\* lines 936-941: the chassis seen at least twice in the view, with the first
\* and the last date; rows of equal QTD have no defined order, so a set
DupOf(t) ==
    {[CHASSI |-> c,
      QTD |-> Cardinality({i \in 1..Len(t) : t[i].CHASSI = c}),
      PRIMEIRA_DATA |-> MinOfDates({t[i].DATA : i \in {j \in 1..Len(t) : t[j].CHASSI = c}}),
      ULTIMA_DATA   |-> MaxOfDates({t[i].DATA : i \in {j \in 1..Len(t) : t[j].CHASSI = c}})] :
        c \in {x \in {t[i].CHASSI : i \in 1..Len(t)} :
                  Cardinality({i \in 1..Len(t) : t[i].CHASSI = x}) >= 2}}

\* lines 875-953: the three sections; each one skips its aggregation when the
\* view is empty
Charts(t) ==
    IF t = <<>> THEN [daily |-> <<>>, by_unid |-> {}, dup |-> {}]
    ELSE [daily |-> DailyOf(t), by_unid |-> ByUnid(t), dup |-> DupOf(t)]

\* lines 876-877, 886-887, 906-907, 913-914, 933-934, 942-943: the captions
\* shown in place of a chart or table
ChartNotices(t) ==
    LET c == Charts(t)
    IN  (IF c.daily = <<>> THEN {"daily"} ELSE {})
        \cup (IF c.by_unid = {} THEN {"by_unid"} ELSE {})
        \cup (IF c.dup = {} THEN {"dup"} ELSE {})

MaxRecs == 3

\* Friday 29 December 2023, Saturday 6 and Monday 8 January 2024
PageDates == { <<2023, 12, 29>>, <<2024, 1, 6>>, <<2024, 1, 8>> }

\* inspector A works in unit U on chassis P, inspector B in unit W on chassis Q;
\* the records may come from several sheets, so any of them may be a repeat
PageRecords ==
    {[DATA |-> d, YM |-> YmOf(d), VISTORIADOR |-> w[1], UNIDADE |-> w[2],
      CHASSI |-> w[3], IS_REV |-> rev] :
        d \in PageDates, w \in { << <<"A">>, <<"U">>, <<"P">> >>,
                                 << <<"B">>, <<"W">>, <<"Q">> >> },
        rev \in {0, 1}}

\* no quota row, one row for A, or two rows (two units) for A in January 2024
PageQuotaTables ==
    { <<>>,
      <<QuotaRow(<<"A">>, <<"U">>, 2, 2, <<2024, 1>>)>>,
      <<QuotaRow(<<"A">>, <<"U">>, 2, 2, <<2024, 1>>),
        QuotaRow(<<"A">>, <<"W">>, 3, 2, <<2024, 1>>)>> }

\* a Sunday without records, a day before every record, and a day that may
\* have records without being the last one
RankDays == { <<2024, 1, 7>>, <<2023, 12, 1>>, <<2024, 1, 6>> }

\* a day without records that the date input accepts between two days with
\* records
GapDays == { <<2024, 1, 7>> }

\* the state after the load loop: df is not empty and in date order
InitPage ==
    /\ pc = "page"
    /\ df \in {t \in SeqsUpTo(PageRecords, MaxRecs) : t # <<>> /\ DateSorted(t)}
    /\ df_metas_all \in PageQuotaTables
    /\ unids_tmp \in {{}, { <<"U">> }}
    /\ vists_tmp \in {{}, { <<"B">> }}
    /\ ym_sel \in YmAll(df)
    /\ view = <<>> /\ metas_ref = <<>> /\ grp = <<>>
    /\ hist = <<>> /\ hist_table = <<>>
    /\ EmptyPage
    /\ EmptyLoad
    /\ raw = <<>> /\ data = <<>> /\ ret = <<>>
    /\ row_in = None /\ row_out = None
    /\ one = <<>> /\ ym_ref = None /\ streak_out = None /\ det = None

\* lines 436-450: the periods the date input can give for month ym: the whole
\* month (the default), its last day, or one day of GapDays between the first
\* and the last day of the month's records
Periods(d, ym) ==
    LET min_d == MinOfDates(DatasMes(d, ym))
        max_d == MaxOfDates(DatasMes(d, ym))
    IN  {<<min_d, max_d>>, <<max_d, max_d>>}
        \cup {<<g, g>> : g \in {x \in GapDays : DateLeq(min_d, x) /\ DateLeq(x, max_d)}}

\* lines 436-489
ApplyFilters ==
    /\ pc = "page"
    /\ \E rng \in Periods(df, ym_sel) :
       \E v \in {FilterView(df, unids_tmp, ym_sel, rng, vists_tmp)} :
          /\ drange' = rng
          /\ view' = v
          /\ kpis' = Kpis(v)
          /\ notices' = IF v = <<>> THEN {"kpis"} ELSE {}
    /\ pc' = "page_resumo"
    /\ UNCHANGED <<loadVars, metas_ref, grp, mes, dia, charts, sheetVars, calcVars,
                   streakVars, histVars>>

\* lines 510-632
PageResumo ==
    /\ pc = "page_resumo"
    /\ \E mr \in {MetasRef(df_metas_all, RefYm(view))} :
       \E g \in {BuildGrp(view, mr)} :
          /\ metas_ref' = mr
          /\ grp' = g
          /\ notices' = notices \cup (IF g = <<>> THEN {"resumo"} ELSE {})
    /\ pc' = "page_hist"
    /\ UNCHANGED <<loadVars, view, drange, kpis, mes, dia, charts, sheetVars, calcVars,
                   streakVars, histVars>>

\* a history built from the filtered view v
HistSourceView(d, v) == v

\* line 665: hist_base = df.copy(), the consolidated records d and not the view
HistSource(d, v) == d

\* lines 664-814
PageHist ==
    /\ pc = "page_hist"
    /\ \E h \in {BuildHistRows(HistSource(df, view), df_metas_all, unids_tmp, vists_tmp)} :
          /\ hist' = h
          /\ hist_table' = BuildHistTable(h, ym_sel)
    /\ pc' = "page_charts"
    /\ UNCHANGED <<loadVars, df, df_metas_all, unids_tmp, vists_tmp, ym_sel,
                   pageVars, sheetVars, resumoVars, calcVars, streakVars>>

\* lines 875-953
PageCharts ==
    /\ pc = "page_charts"
    /\ charts' = Charts(view)
    /\ notices' = notices \cup ChartNotices(view)
    /\ pc' = "page_mes"
    /\ UNCHANGED <<loadVars, drange, kpis, mes, dia, sheetVars, resumoVars, calcVars,
                   streakVars, histVars>>

\* lines 965-1079
PageMes ==
    /\ pc = "page_mes"
    /\ \E m \in {BuildMes(view, df_metas_all)} :
          /\ mes' = m
          /\ notices' = notices \cup (IF m = None THEN {"mes"} ELSE {})
    /\ pc' = "page_dia"
    /\ UNCHANGED <<loadVars, drange, kpis, dia, charts, sheetVars, resumoVars, calcVars,
                   streakVars, histVars>>

\* lines 1088-1188: the requested day is the default (the last day with
\* records) or one of RankDays; without dates the section shows a notice
PageDia ==
    /\ pc = "page_dia"
    /\ LET dates_avail == {view[i].DATA : i \in {j \in 1..Len(view) : IsDate(view[j].DATA)}}
       IN  IF dates_avail = {}
           THEN dia' = None /\ notices' = notices \cup {"dia"}
           ELSE /\ \E rank_day \in {MaxOfDates(dates_avail)} \cup RankDays :
                       dia' = BuildDia(view, df_metas_all, rank_day)
                /\ notices' = notices
    /\ pc' = "page_done"
    /\ UNCHANGED <<loadVars, drange, kpis, mes, charts, sheetVars, resumoVars, calcVars,
                   streakVars, histVars>>

NextPage == ApplyFilters \/ PageResumo \/ PageHist \/ PageCharts \/ PageMes \/ PageDia

SpecPage == InitPage /\ [][NextPage]_vars

-----------------------------------------------------------------------------
(* Claims about the aggregates of one run of the page                      *)

\* how many records of t carry the name v, and how many of them are repeats
GrossIn(t, v) == Cardinality({i \in 1..Len(t) : t[i].VISTORIADOR = v})
RepeatsIn(t, v) ==
    Cardinality({i \in 1..Len(t) : t[i].VISTORIADOR = v /\ t[i].IS_REV = 1})

\* gross, repeats and net of a row agree with the records they aggregate
NetOfRow(gross, rev, net, t, v) ==
    /\ gross = GrossIn(t, v)
    /\ rev = RepeatsIn(t, v)
    /\ 0 <= rev /\ rev <= gross
    /\ net = gross - rev

\* C12: in every per-inspector aggregate (grp, hist, prod_mes, prod_dia) net =
\* gross - repeats with 0 <= repeats <= gross, and the shortfall of grp and of
\* hist is max(quota - net, 0), never negative.
C12_NetAndShortfallInEveryAggregate ==
    pc = "page_done" =>
        /\ \A k \in 1..Len(grp) :
              LET b == grp[k].base
              IN  /\ NetOfRow(b.VISTORIAS, b.REVISTORIAS, b.LIQUIDO, view, b.VISTORIADOR)
                  /\ grp[k].calc.FALTANTE_MES >= 0
                  /\ grp[k].calc.FALTANTE_MES =
                        (IF b.META_MENSAL > b.LIQUIDO THEN b.META_MENSAL - b.LIQUIDO ELSE 0)
        /\ \A k \in 1..Len(hist) :
              LET h == hist[k]
                  recs == SelectSeq(HistBase(df, unids_tmp, vists_tmp),
                                    LAMBDA r : r.YM = h.YM)
              IN  /\ NetOfRow(h.VISTORIAS, h.REVISTORIAS, h.LIQUIDO, recs, h.VISTORIADOR)
                  /\ h.FALTANTE >= 0
                  /\ h.FALTANTE =
                        (IF h.META_MENSAL > h.LIQUIDO THEN h.META_MENSAL - h.LIQUIDO ELSE 0)
        /\ mes # None =>
              \A k \in 1..Len(mes.prod_mes) :
                  LET m == mes.prod_mes[k]
                  IN  NetOfRow(m.VISTORIAS, m.REVISTORIAS, m.LIQUIDO, mes.view_mes,
                               m.VISTORIADOR)
        /\ dia # None =>
              \A k \in 1..Len(dia.prod_dia) :
                  LET d == dia.prod_dia[k]
                  IN  NetOfRow(d.VISTORIAS, d.REVISTORIAS, d.LIQUIDO,
                               SelectSeq(view, LAMBDA r : r.DATA = dia.used_day),
                               d.VISTORIADOR)

\* all four aggregates have a row; one of grp has a repeat and a positive
\* shortfall, another has net above its quota
C12_Witness ==
    /\ pc = "page_done"
    /\ \E k \in 1..Len(grp) :
          /\ grp[k].base.REVISTORIAS >= 1
          /\ grp[k].base.VISTORIAS >= 2
          /\ grp[k].calc.FALTANTE_MES > 0
    /\ \E k \in 1..Len(grp) : grp[k].base.LIQUIDO > grp[k].base.META_MENSAL
    /\ \E k \in 1..Len(hist) : hist[k].FALTANTE > 0 /\ hist[k].REVISTORIAS >= 1
    /\ mes # None /\ mes.prod_mes # <<>>
    /\ dia # None /\ dia.prod_dia # <<>>

-----------------------------------------------------------------------------
(* Claims about one Resumo row: monotonicity                               *)

\* the derived columns of the row of row_in with another net production
CalcWithNet(n) ==
    CalcRow([LIQUIDO |-> n, META_MENSAL |-> row_in.META_MENSAL,
             DIAS_UTEIS |-> row_in.DIAS_UTEIS, DIAS_PASSADOS |-> row_in.DIAS_PASSADOS])

\* C13: with quota, working days and days elapsed fixed, a larger net never has
\* a larger shortfall nor a smaller rounded month-end projection.
C13_ShortfallAndProjectionMonotoneInNet ==
    pc = "calc_done" =>
        \A n1 \in LiquidoVals :
            n1 <= row_in.LIQUIDO =>
                /\ row_out.FALTANTE_MES <= CalcWithNet(n1).FALTANTE_MES
                /\ row_out.PROJECAO_MES >= CalcWithNet(n1).PROJECAO_MES

\* a net below the quota compared with a smaller one: the shortfall falls and
\* the projection, with days left in the month, rises
C13_Witness ==
    /\ pc = "calc_done"
    /\ row_in.LIQUIDO < row_in.META_MENSAL
    /\ row_in.DIAS_PASSADOS > 0
    /\ row_in.DIAS_UTEIS > row_in.DIAS_PASSADOS
    /\ \E n1 \in LiquidoVals :
          /\ n1 < row_in.LIQUIDO
          /\ row_out.FALTANTE_MES < CalcWithNet(n1).FALTANTE_MES
          /\ row_out.PROJECAO_MES > CalcWithNet(n1).PROJECAO_MES

-----------------------------------------------------------------------------
(* Claims about the Resumo table: days elapsed                             *)

\* of the dates of the views, 5 and 8 January 2024 are a Friday and a Monday,
\* 6 January is a Saturday
MonToFri == {Jan(5), Jan(8)}

DatesOf(v) == {view[i].DATA : i \in RowsOf(view, v)}

\* C14: DIAS_PASSADOS of an inspector is the number of distinct Monday-to-Friday
\* dates with a record of that inspector in the view; weekend records count in
\* gross and net but not in DIAS_PASSADOS, which is 0 with weekend records only.
C14_DaysElapsedCountsDistinctWeekdays ==
    pc = "resumo_done" =>
        \A k \in 1..Len(grp) :
            LET b == grp[k].base
            IN  /\ b.DIAS_PASSADOS = Cardinality(DatesOf(b.VISTORIADOR) \cap MonToFri)
                /\ b.VISTORIAS = Cardinality(RowsOf(view, b.VISTORIADOR))
                /\ DatesOf(b.VISTORIADOR) \cap MonToFri = {} => b.DIAS_PASSADOS = 0

\* an inspector with net production and no day elapsed (weekend records only)
\* next to an inspector with two records, one of them on the Saturday, and one
\* day elapsed
C14_Witness ==
    /\ pc = "resumo_done"
    /\ \E k \in 1..Len(grp) :
          /\ grp[k].base.DIAS_PASSADOS = 0
          /\ grp[k].base.LIQUIDO >= 1
    /\ \E k \in 1..Len(grp) :
          /\ grp[k].base.DIAS_PASSADOS = 1
          /\ grp[k].base.VISTORIAS = 2
          /\ Jan(6) \in DatesOf(grp[k].base.VISTORIADOR)

-----------------------------------------------------------------------------
(* The load loop over the sheet ids of the index (lines 333-360)           *)

MaxSheets == 3

\* read_one_sheet_cached raised
Raised == [raised |-> TRUE, dfi |-> <<>>, dmf |-> <<>>]

Loaded(dfi, dmf) == [raised |-> FALSE, dfi |-> dfi, dmf |-> dmf]

LoadRecord(d) ==
    [DATA |-> d, YM |-> YmOf(d), VISTORIADOR |-> <<"A">>, UNIDADE |-> <<"U">>, IS_REV |-> 0]

\* a sheet raises, or gives records and quota rows, either of them possibly none
SheetResults ==
    { Raised,
      Loaded(<<>>, <<>>),
      Loaded(<<>>, <<QuotaRow(<<"A">>, <<"U">>, 2, 2, <<2024, 1>>)>>),
      Loaded(<<LoadRecord(<<2023, 12, 29>>)>>, <<>>),
      Loaded(<<LoadRecord(<<2024, 1, 5>>), LoadRecord(<<2024, 1, 8>>)>>,
             <<QuotaRow(<<"A">>, <<"U">>, 2, 2, <<2024, 1>>)>>) }

RECURSIVE Concat(_)
\* pd.concat(frames, ignore_index=True) of a non-empty list of frames
Concat(frames) == IF frames = <<>> THEN <<>> ELSE Head(frames) \o Concat(Tail(frames))

\* line 327: the index lists at least one sheet id
InitLoad ==
    /\ pc = "load"
    /\ sheets \in SeqsUpTo(SheetResults, MaxSheets) \ {<<>>}
    /\ sid = 1
    /\ all_df = <<>> /\ all_metas = <<>> /\ errors = <<>>
    /\ df = <<>> /\ df_metas_all = <<>> /\ unids_tmp = {} /\ vists_tmp = {}
    /\ ym_sel = None /\ hist = <<>> /\ hist_table = <<>>
    /\ view = <<>> /\ metas_ref = <<>> /\ grp = <<>>
    /\ EmptyPage
    /\ raw = <<>> /\ data = <<>> /\ ret = <<>>
    /\ row_in = None /\ row_out = None
    /\ one = <<>> /\ ym_ref = None /\ streak_out = None /\ det = None

\* lines 337-345: one turn of the loop
LoadSheet ==
    /\ pc = "load"
    /\ sid <= Len(sheets)
    /\ IF sheets[sid].raised
       THEN /\ errors' = Append(errors, sid)
            /\ UNCHANGED <<all_df, all_metas>>
       ELSE /\ all_df' = IF sheets[sid].dfi # <<>>
                         THEN Append(all_df, sheets[sid].dfi) ELSE all_df
            /\ all_metas' = IF sheets[sid].dmf # <<>>
                            THEN Append(all_metas, sheets[sid].dmf) ELSE all_metas
            /\ UNCHANGED errors
    /\ sid' = sid + 1
    /\ UNCHANGED <<pc, sheets, sheetVars, resumoVars, calcVars, streakVars, histVars,
                   pageVars>>

\* lines 347-360: st.error and st.stop when every frame is missing and a load
\* raised; otherwise pd.concat, which raises ValueError on an empty list
AfterLoad ==
    /\ pc = "load"
    /\ sid > Len(sheets)
    /\ IF errors # <<>> /\ all_df = <<>>
       THEN pc' = "load_stopped" /\ UNCHANGED <<df, df_metas_all>>
       ELSE IF all_df = <<>>
       THEN pc' = "load_crashed" /\ UNCHANGED <<df, df_metas_all>>
       ELSE /\ pc' = "loaded"
            /\ df' = Concat(all_df)
            /\ df_metas_all' = IF all_metas # <<>> THEN Concat(all_metas) ELSE <<>>
    /\ UNCHANGED <<loadVars, unids_tmp, vists_tmp, ym_sel, hist, hist_table,
                   sheetVars, resumoVars, calcVars, streakVars, pageVars>>

NextLoad == LoadSheet \/ AfterLoad

SpecLoad == InitLoad /\ [][NextLoad]_vars

-----------------------------------------------------------------------------
(* Claims about the load loop                                              *)

RECURSIVE RecordsOfLoaded(_, _)
\* the records of the first n sheets that loaded, in index order
RecordsOfLoaded(sh, n) ==
    IF n = 0 THEN <<>>
    ELSE RecordsOfLoaded(sh, n - 1) \o (IF sh[n].raised THEN <<>> ELSE sh[n].dfi)

RECURSIVE QuotasOfLoaded(_, _)
QuotasOfLoaded(sh, n) ==
    IF n = 0 THEN <<>>
    ELSE QuotasOfLoaded(sh, n - 1) \o (IF sh[n].raised THEN <<>> ELSE sh[n].dmf)

\* C15: a sheet whose load raises contributes nothing and is recorded in the
\* error list, every other sheet is loaded, and after the loop the run has
\* halted with its error message or goes on with exactly the records of the
\* sheets that loaded, in index order, for every combination of sheets.
C15_LoadLoopIsolatesFailingSheets ==
    /\ pc = "load" =>
          /\ Range(errors) = {i \in 1..(sid - 1) : sheets[i].raised}
          /\ Concat(all_df) = RecordsOfLoaded(sheets, sid - 1)
          /\ Concat(all_metas) = QuotasOfLoaded(sheets, sid - 1)
    /\ pc # "load" =>
          \/ pc = "load_stopped"
          \/ /\ pc = "loaded"
             /\ df = RecordsOfLoaded(sheets, Len(sheets))
             /\ df_metas_all = QuotasOfLoaded(sheets, Len(sheets))

-----------------------------------------------------------------------------
(* Claims about read_one_sheet: records without a date                     *)

\* the columns of a returned record that the aggregates read
Columns(r) ==
    [UNIDADE |-> r.UNIDADE, CHASSI |-> r.CHASSI, DATA |-> r.DATA,
     VISTORIADOR |-> r.VISTORIADOR, IS_REV |-> r.IS_REV, YM |-> r.YM]

ColumnsOf(s) == [i \in 1..Len(s) |-> Columns(s[i])]

\* the input table without the rows whose date no format parses
WithoutUndated(t) == SelectSeq(t, LAMBDA r : IsDate(parse_date_any(r.DATA)))

\* C16: a record whose date cannot be parsed is the only record dropped: the
\* sheet is returned, and its dated records and their repeat flags are those
\* returned for the same input without the undated records.
C16_UndatedRecordAloneIsDropped ==
    pc \in {"sheet_read", "sheet_raised"} =>
        /\ pc = "sheet_read"
        /\ ColumnsOf(SelectSeq(ret, LAMBDA r : IsDate(r.DATA)))
              = ColumnsOf(DropBanned(Classify(Normalise(WithoutUndated(raw)))))

-----------------------------------------------------------------------------
(* From one sheet to the page: a run whose index lists a single sheet      *)

\* rows of a valid unit whose chassis or whose inspector columns may be blank
BlankRows == [UNIDADE : { <<"b">> },
              DATA : { [sep |-> "/", n |-> <<3, 1, 2024>>, wd |-> <<2, 2, 4>>],
                       [sep |-> "-", n |-> <<2024, 1, 5>>, wd |-> <<4, 2, 2>>] },
              CHASSI : { <<" ">>, <<"Y">> },
              PERITO : { <<" ">> },
              DIGITADOR : { <<"z">>, <<" ">> }]

InitRun ==
    /\ pc = "read_one_sheet"
    /\ raw \in SeqsUpTo(BlankRows, MaxRows)
    /\ data = <<>>
    /\ ret = <<>>
    /\ EmptyRest

\* lines 333-360 and 418-432 with one sheet id and no METAS tab: the load
\* stops when the sheet raised, pd.concat raises when it is empty, otherwise
\* df is its frame and the reference month is one of its months
LoadOnlySheet ==
    /\ pc \in {"sheet_read", "sheet_raised"}
    /\ IF pc = "sheet_raised"
       THEN pc' = "load_stopped" /\ UNCHANGED <<df, ym_sel>>
       ELSE IF ret = <<>>
       THEN pc' = "load_crashed" /\ UNCHANGED <<df, ym_sel>>
       ELSE /\ pc' = "page"
            /\ df' = ret
            /\ ym_sel' \in YmAll(ret)
    /\ UNCHANGED <<loadVars, df_metas_all, unids_tmp, vists_tmp, hist, hist_table,
                   sheetVars, resumoVars, calcVars, streakVars, pageVars>>

NextRun ==
    read_one_sheet \/ LoadOnlySheet \/ ApplyFilters \/ PageResumo \/ PageHist
        \/ PageCharts \/ PageMes \/ PageDia

SpecRun == InitRun /\ [][NextRun]_vars

-----------------------------------------------------------------------------
(* Claims about records with a blank chassis or a blank inspector          *)

\* C17: no record whose chassis normalises to the empty string is classified
\* or kept: none is in the frame read_one_sheet returns, none is flagged a
\* repeat of another, none is counted in the totals of the view.
C17_NoRecordWithEmptyChassisIsKept ==
    /\ pc # "read_one_sheet" =>
          /\ \A k \in 1..Len(ret) : ret[k].CHASSI # <<>>
          /\ \A k \in 1..Len(data) : data[k].CHASSI = <<>> => data[k].IS_REV = 0
    /\ pc = "page_done" =>
          kpis.vistorias_total = Cardinality({i \in 1..Len(view) : view[i].CHASSI # <<>>})

\* C18: a record without inspector (PERITO and DIGITADOR blank) is excluded
\* before aggregation: it is counted in no total of the view and no row of the
\* Resumo, of the history or of the rankings carries the empty name.
C18_NoAggregateHoldsRecordWithoutInspector ==
    pc = "page_done" =>
        /\ kpis.vistorias_total
              = Cardinality({i \in 1..Len(view) : view[i].VISTORIADOR # <<>>})
        /\ \A k \in 1..Len(grp) : grp[k].base.VISTORIADOR # <<>>
        /\ \A k \in 1..Len(hist) : hist[k].VISTORIADOR # <<>>
        /\ mes # None => \A k \in 1..Len(mes.prod_mes) : mes.prod_mes[k].VISTORIADOR # <<>>
        /\ dia # None => \A k \in 1..Len(dia.prod_dia) : dia.prod_dia[k].VISTORIADOR # <<>>

-----------------------------------------------------------------------------
(* Filters that match no record                                            *)

PagePcs == {"page_resumo", "page_hist", "page_charts", "page_mes", "page_dia", "page_done"}

AllSections == {"kpis", "resumo", "daily", "by_unid", "dup", "mes", "dia"}

\* the dates a section hands to min or max when it runs over table t
ValidDatesOf(t) == {t[i].DATA : i \in {j \in 1..Len(t) : IsDate(t[j].DATA)}}

\* C19: whatever the unit, inspector and period filters, every min or max over
\* dates gets a non-empty collection (the dates of the selected month always;
\* the dates of the view only when the view has records), and when the filters
\* match no record every section gives its zero or empty aggregate and shows
\* its no-data message: KPIs, Resumo, daily evolution, per-unit chart,
\* duplicate-chassis audit, consolidated month and day ranking.
C19_EmptyViewGivesEmptyAggregatesAndNotices ==
    /\ pc \in {"page"} \cup PagePcs => DatasMes(df, ym_sel) # {}
    /\ pc \in PagePcs /\ view # <<>> => ValidDatesOf(view) # {}
    /\ pc \in PagePcs /\ view = <<>> =>
          /\ kpis = [vistorias_total |-> 0, revistorias_total |-> 0,
                     liq_total |-> 0, pct_rev |-> Zero]
          /\ "kpis" \in notices
    /\ pc = "page_done" /\ view = <<>> =>
          /\ RefYm(view) = None /\ metas_ref = <<>> /\ grp = <<>>
          /\ charts = [daily |-> <<>>, by_unid |-> {}, dup |-> {}]
          /\ mes = None
          /\ dia = None
          /\ notices = AllSections
    /\ pc = "page_done" /\ view # <<>> =>
          /\ notices \subseteq {"dup"}
          /\ grp # <<>> /\ charts.daily # <<>> /\ charts.by_unid # {}
          /\ mes # None /\ dia # None

\* the records of the month hold both inspectors, and the unit filter (U) with
\* the inspector filter (B) leaves none of them; every section has run
C19_Witness ==
    /\ pc = "page_done"
    /\ unids_tmp = { <<"U">> } /\ vists_tmp = { <<"B">> }
    /\ \E i \in 1..Len(df) : df[i].YM = ym_sel /\ df[i].VISTORIADOR = <<"A">>
    /\ \E i \in 1..Len(df) : df[i].YM = ym_sel /\ df[i].VISTORIADOR = <<"B">>
    /\ view = <<>>
    /\ notices = AllSections
    /\ kpis.pct_rev = Zero

-----------------------------------------------------------------------------
(* The classifier run on its own output                                    *)

\* C20: classification is idempotent.  Sorting the classified frame again
\* (stable, by date then chassis), counting again per chassis and flagging
\* again index >= 1 leaves every record at its position with the same __ORD__
\* and the same IS_REV.
C20_ClassifierIsIdempotent ==
    pc \in {"sheet_read", "sheet_raised"} =>
        \E again \in {Classify(data)} :
            /\ Len(again) = Len(data)
            /\ \A i \in 1..Len(data) :
                  /\ again[i].src = data[i].src
                  /\ again[i].ORD = data[i].ORD
                  /\ again[i].IS_REV = data[i].IS_REV
            /\ again = data

\* the first run moved a row, two rows of one chassis share a date, and the
\* frame holds an original and a repeat
C20_Witness ==
    /\ pc = "sheet_read"
    /\ Len(data) = 3
    /\ \E i \in 1..3 : data[i].src # i
    /\ \E i, j \in 1..3 :
          /\ i < j /\ data[i].CHASSI = data[j].CHASSI /\ data[i].DATA = data[j].DATA
          /\ data[i].IS_REV = 0 /\ data[j].IS_REV = 1
    /\ Classify(data) = data

-----------------------------------------------------------------------------
(* The totals of the consolidated month                                    *)

\* C21: whatever the quota table holds, the totals of the consolidated month
\* count each record of the view of the reference month once: vist_tot is the
\* number of records of view_mes and equals the KPI vistorias_total, rev_tot is
\* the number of them flagged repeat, and liq_tot = vist_tot - rev_tot.
C21_MonthTotalsCountEachRecordOnce ==
    pc = "page_done" /\ mes # None =>
        /\ mes.vist_tot = Len(mes.view_mes)
        /\ mes.vist_tot = kpis.vistorias_total
        /\ mes.rev_tot = Cardinality({i \in 1..Len(mes.view_mes) : mes.view_mes[i].IS_REV = 1})
        /\ mes.liq_tot = mes.vist_tot - mes.rev_tot

-----------------------------------------------------------------------------
(* The history does not read the period                                    *)

\* the history and the underperformers table of the run that differs from the
\* present one only in the period rng chosen inside the month
HistOfRun(rng) ==
    BuildHistRows(HistSource(df, FilterView(df, unids_tmp, ym_sel, rng, vists_tmp)),
                  df_metas_all, unids_tmp, vists_tmp)
TableOfRun(rng) == BuildHistTable(HistOfRun(rng), ym_sel)

\* C23: the monthly history, the underperformers table and with it every streak
\* and start month depend only on the consolidated data, the unit filter, the
\* inspector filter and the reference month: the run with any other period
\* inside the month gives the same hist and the same hist_table as this run.
C23_HistoryIndependentOfPeriod ==
    pc = "page_done" =>
        \A rng \in Periods(df, ym_sel) :
            /\ HistOfRun(rng) = hist
            /\ TableOfRun(rng) = hist_table

\* the period of this run cuts records off the view that another period keeps,
\* and the history lists an inspector with a streak
C23_Witness ==
    /\ pc = "page_done"
    /\ \E rng \in Periods(df, ym_sel) :
          FilterView(df, unids_tmp, ym_sel, rng, vists_tmp) # view
    /\ Len(view) < Len(HistBase(df, unids_tmp, vists_tmp))
    /\ hist # <<>>
    /\ \E k \in 1..Len(hist_table) :
          /\ hist_table[k].MESES_CONSECUTIVOS_SEM_META >= 1
          /\ hist_table[k].INICIO_DA_SEQUENCIA # None

-----------------------------------------------------------------------------
(* The day of the day ranking                                              *)

\* C24: the day used by the day ranking has records in the view.  It is the
\* requested day when that day has records; otherwise the latest day with
\* records that is not after the requested day; otherwise, when every day with
\* records is after the requested day, the latest day with records.  The notice
\* naming the requested and the substituted day is shown exactly when the two
\* differ.
C24_UsedDayHasRecords ==
    pc = "page_done" /\ dia # None =>
        LET avail  == ValidDatesOf(view)
            r      == dia.rank_day
            u      == dia.used_day
            before == {d \in avail : DateLeq(d, r)}
        IN  /\ u \in avail
            /\ \E i \in 1..Len(view) : view[i].DATA = u
            /\ dia.prod_dia # <<>>
            /\ r \in avail => u = r
            /\ r \notin avail /\ before # {} =>
                  u \in before /\ \A d \in before : DateLeq(d, u)
            /\ r \notin avail /\ before = {} =>
                  \A d \in avail : DateLeq(d, u)
            /\ dia.info_msg # None <=> u # r
            /\ dia.info_msg # None => dia.info_msg = <<r, u>>

\* Sunday 7 January is requested, the view has records on the 6th and on the
\* 8th, and the ranking shows the 6th with the notice
C24_Witness ==
    /\ pc = "page_done" /\ dia # None
    /\ dia.rank_day = <<2024, 1, 7>>
    /\ {<<2024, 1, 6>>, <<2024, 1, 8>>} \subseteq ValidDatesOf(view)
    /\ dia.used_day = <<2024, 1, 6>>
    /\ dia.info_msg = << <<2024, 1, 7>>, <<2024, 1, 6>> >>

====
